---- MODULE Spec2Model ----
(***************************************************************************)
(* Foldy: pattern generation for book folding.                             *)
(*                                                                         *)
(* Two generations of the engine live side by side in the repository and   *)
(* both are reachable from hooks:                                          *)
(*   - PatternGeneratorService -> CutModeBase subclasses -> ZoneDetector   *)
(*     and PrecisionManager (hook usePatternGenerator);                    *)
(*   - GenerateService -> the *Service classes, either built on            *)
(*     BaseCutModeService and the utils (Inverted, Embossed) or static     *)
(*     with the scan inlined (Combi, Shadow Fold, MMF) (hook               *)
(*     useGenerateForm).  Inverted and Embossed also exist as static       *)
(*     classes with the scan of detectZonesInColumn inlined; they compute  *)
(*     the same zones and are not modelled apart.                          *)
(*                                                                         *)
(* Lengths are JavaScript numbers in the code.  Here they are exact        *)
(* rationals [n, d] in centimetres, kept in lowest terms, so that every    *)
(* rounding step is computed and not assumed; binary floating-point error  *)
(* is not modelled.                                                        *)
(***************************************************************************)
EXTENDS Integers, Sequences, FiniteSets, TLC

VARIABLES
    pc,          \* position of the generate call
    svc,         \* which orchestrator serves the call
    params,      \* the parameters of the call
    imageWork,   \* image steps started so far, in order
    procOutcome, \* how ImageProcessingService.processImage settled
    loadOutcome, \* how loadImageData / getImageData settled
    imageData,   \* the decoded pixel grid, once loaded
    result,      \* the value generate resolved with
    thrown,      \* TRUE when generate rejected instead of resolving
    zin,         \* input of a zone detection applied on its own
    zout,        \* its output
    hook,        \* usePatternGenerator: the two contexts and its three states
    requests     \* the PatternGeneratorService.generate calls the hook started

vars == <<pc, svc, params, imageWork, procOutcome, loadOutcome, imageData,
          result, thrown, zin, zout, hook, requests>>

----------------------------------------------------------------------------
(* Exact rationals.                                                        *)

Abs(x) == IF x < 0 THEN -x ELSE x

RECURSIVE GCD(_, _)
GCD(a, b) == IF b = 0 THEN a ELSE GCD(b, a % b)

\* n/d in lowest terms, d > 0
Reduce(n, d, g) == [n |-> n \div g, d |-> d \div g]
Rat(n, d) == Reduce(n, d, GCD(Abs(n), d))

RInt(i) == [n |-> i, d |-> 1]
RSub(a, b) == Rat(a.n * b.d - b.n * a.d, a.d * b.d)
RMul(a, b) == Rat(a.n * b.n, a.d * b.d)
RMulInt(a, k) == Rat(a.n * k, a.d)
RDivInt(a, k) == Rat(a.n, a.d * k)
RLt(a, b) == a.n * b.d < b.n * a.d
RLe(a, b) == a.n * b.d <= b.n * a.d
RMin(a, b) == IF RLe(a, b) THEN a ELSE b
RMax(a, b) == IF RLe(a, b) THEN b ELSE a

\* Math.round: the integer nearest to x, halves going up (floor(x + 1/2))
MathRound(x) == (2 * x.n + x.d) \div (2 * x.d)

\* Math.floor
MathFloor(x) == x.n \div x.d

\* Math.ceil
MathCeil(x) == -((-x.n) \div x.d)

----------------------------------------------------------------------------
(* PrecisionManager and UnitConverter (services/core).                     *)

CM_TO_INCH == Rat(254, 100)

\* UnitConverter.toCm
toCm(value, unit) == IF unit = "in" THEN RMul(value, CM_TO_INCH) ELSE value

\* calculatePhysicalPages, were it to use Math.floor
calculatePhysicalPages_floor(lastPageNumber) == MathFloor(Rat(lastPageNumber, 2))

\* calculatePhysicalPages, were it to count one page more than the halves
calculatePhysicalPages_next(lastPageNumber) == lastPageNumber \div 2 + 1

\* UnitConverter.calculatePhysicalPages and calculatePhysicalPages of
\* utils/measurement.utils; lastPageNumber is an integer here
calculatePhysicalPages(lastPageNumber) == MathCeil(Rat(lastPageNumber, 2))

\* the switch of PrecisionManager.round on a value in millimetres
round_switch(valueMm, precision) ==
    CASE precision = "0.1mm" -> Rat(MathRound(RMulInt(valueMm, 10)), 10)
      [] precision = "0.5mm" -> Rat(MathRound(RMulInt(valueMm, 2)), 2)
      [] precision = "1mm"   -> RInt(MathRound(valueMm))

\* PrecisionManager.round, were it to leave out the conversion to
\* millimetres before the switch
round_unconverted(valueCm, precision) ==
    RDivInt(round_switch(valueCm, precision), 10)

\* PrecisionManager.round
round(valueCm, precision) ==
    RDivInt(round_switch(RMulInt(valueCm, 10), precision), 10)

\* PrecisionManager.format
format(valueCm, precision) ==
    Rat(MathRound(RMulInt(round(valueCm, precision), 100)), 100)

\* the switch of roundValue, were it to truncate with Math.floor
roundValue_switch_floor(valueMm, precision) ==
    CASE precision = "0.1mm" -> Rat(MathFloor(RMulInt(valueMm, 10)), 10)
      [] precision = "0.5mm" -> Rat(MathFloor(RMulInt(valueMm, 2)), 2)
      [] precision = "1mm"   -> RInt(MathFloor(valueMm))

\* the switch of roundValue on a value in millimetres
roundValue_switch(valueMm, precision) ==
    CASE precision = "0.1mm" -> Rat(MathRound(RMulInt(valueMm, 10)), 10)
      [] precision = "0.5mm" -> Rat(MathRound(RMulInt(valueMm, 2)), 2)
      [] precision = "1mm"   -> RInt(MathRound(valueMm))

\* utils/measurement.utils roundValue (also inlined in the static services)
roundValue(value, precision) ==
    IF precision = "exact" THEN value
    ELSE RDivInt(roundValue_switch(RMulInt(value, 10), precision), 10)

\* utils pixelToPagePosition
pixelToPagePosition(pixelPosition, totalPixels, pageHeight) ==
    RMul(Rat(pixelPosition, totalPixels), pageHeight)

----------------------------------------------------------------------------
(* Pixel grids.  Only the red channel is read by the engine, so data holds *)
(* one sample per pixel: data[y * width + x + 1] is ImageData.data at      *)
(* index (y * width + x) * 4.                                              *)

\* a read inside the typed array (a read outside yields undefined)
PixelDefined(img, x, y) ==
    LET i == y * img.width + x IN i >= 0 /\ i < Len(img.data)

\* utils getPixelGray / imageData.data[(y * width + x) * 4]
getPixelGray(img, x, y) == img.data[y * img.width + x + 1]

----------------------------------------------------------------------------
(* ZoneDetector (services/core).                                           *)

\* the zone ZoneDetector.createZone returns for the formatted marks
ZoneDetector_zone(startMark, endMark, precision) ==
    [startMark |-> startMark,
     endMark   |-> endMark,
     height    |-> format(RSub(endMark, startMark), precision)]

\* ZoneDetector.createZone, were it to close every zone at the last row
ZoneDetector_createZone_toBottom(startPixel, endPixel, imageHeight, pageHeightCm, precision) ==
    ZoneDetector_zone(
        format(RMul(Rat(startPixel, imageHeight), pageHeightCm), precision),
        format(pageHeightCm, precision),
        precision)

\* ZoneDetector.createZone
ZoneDetector_createZone(startPixel, endPixel, imageHeight, pageHeightCm, precision) ==
    ZoneDetector_zone(
        format(RMul(Rat(startPixel, imageHeight), pageHeightCm), precision),
        format(RMul(Rat(endPixel, imageHeight), pageHeightCm), precision),
        precision)

\* the classification, were a sample equal to the threshold to count as dark
ZoneDetector_isTarget_inclusive(img, columnX, y, threshold, detectDark) ==
    /\ PixelDefined(img, columnX, y)
    /\ IF detectDark THEN getPixelGray(img, columnX, y) <= threshold
                     ELSE getPixelGray(img, columnX, y) > threshold

\* the classification of one sample in ZoneDetector.detectZones; a read
\* outside the array is undefined and compares false both ways
ZoneDetector_isTarget(img, columnX, y, threshold, detectDark) ==
    /\ PixelDefined(img, columnX, y)
    /\ IF detectDark THEN getPixelGray(img, columnX, y) < threshold
                     ELSE getPixelGray(img, columnX, y) >= threshold

\* one iteration of the for loop of ZoneDetector.detectZones, at row y;
\* st holds inZone, zoneStart and zones
ZoneDetector_step(config, st, y, isTarget) ==
    IF isTarget /\ ~st.inZone
    THEN [inZone |-> TRUE, zoneStart |-> y, zones |-> st.zones]
    ELSE IF ~isTarget /\ st.inZone
    THEN [inZone    |-> FALSE,
          zoneStart |-> st.zoneStart,
          zones     |-> Append(st.zones,
                            ZoneDetector_createZone(st.zoneStart, y,
                                config.imageData.height, config.pageHeightCm,
                                config.precision))]
    ELSE st

\* the iterations y = lo .. hi - 1 of the for loop, in order, from st.  The
\* range is run as its two halves, one after the other, which keeps the
\* evaluation shallow on a tall grid; the test on st.inZone, always true,
\* has st evaluated before the rows that follow it.
RECURSIVE ZoneDetector_loop(_, _, _, _)
ZoneDetector_loop(config, st, lo, hi) ==
    IF st.inZone \in BOOLEAN /\ hi <= lo THEN st
    ELSE IF hi = lo + 1
    THEN ZoneDetector_step(config, st, lo,
             ZoneDetector_isTarget(config.imageData, config.columnX, lo,
                                   config.threshold, config.detectDark))
    ELSE ZoneDetector_loop(config,
             ZoneDetector_loop(config, st, lo, (lo + hi) \div 2),
             (lo + hi) \div 2, hi)

\* the end of ZoneDetector.detectZones, were a zone still open after the
\* last row to be forgotten
ZoneDetector_close_forget(config, st) == st.zones

\* the closing of a zone still open after the last row
ZoneDetector_close(config, st) ==
    IF st.inZone
    THEN Append(st.zones,
             ZoneDetector_createZone(st.zoneStart, config.imageData.height,
                 config.imageData.height, config.pageHeightCm, config.precision))
    ELSE st.zones

\* ZoneDetector.detectZones
detectZones(config) ==
    ZoneDetector_close(config,
        ZoneDetector_loop(config,
            [inZone |-> FALSE, zoneStart |-> 0, zones |-> <<>>],
            0, config.imageData.height))

\* the gap [start, end] as ZoneDetector.invertZones pushes it
ZoneDetector_gap(start, end, precision) ==
    [startMark |-> start,
     endMark   |-> end,
     height    |-> format(RSub(end, start), precision)]

\* the for loop of ZoneDetector.invertZones from index i (1-based here):
\* the gap between zones[i] and zones[i + 1] is pushed if its formatted
\* height is > 0
RECURSIVE ZoneDetector_between(_, _, _, _)
ZoneDetector_between(zones, i, precision, inverted) ==
    IF i > Len(zones) - 1 THEN inverted
    ELSE ZoneDetector_between(zones, i + 1, precision,
             IF RLt(RInt(0), format(RSub(zones[i + 1].startMark, zones[i].endMark),
                                    precision))
             THEN Append(inverted,
                      ZoneDetector_gap(zones[i].endMark, zones[i + 1].startMark,
                                       precision))
             ELSE inverted)

\* the gap before the first zone
ZoneDetector_before(zones, precision) ==
    IF RLt(RInt(0), zones[1].startMark)
    THEN <<ZoneDetector_gap(RInt(0), zones[1].startMark, precision)>>
    ELSE <<>>

\* the gap after the last zone
ZoneDetector_after(zones, pageHeightCm, precision) ==
    IF RLt(zones[Len(zones)].endMark, pageHeightCm)
    THEN <<ZoneDetector_gap(zones[Len(zones)].endMark, pageHeightCm, precision)>>
    ELSE <<>>

\* ZoneDetector.invertZones, were it to leave the gap after the last zone out
invertZones_noTail(zones, pageHeightCm, precision) ==
    IF Len(zones) = 0
    THEN <<[startMark |-> RInt(0), endMark |-> pageHeightCm, height |-> pageHeightCm]>>
    ELSE ZoneDetector_between(zones, 1, precision,
             ZoneDetector_before(zones, precision))

\* ZoneDetector.invertZones
invertZones(zones, pageHeightCm, precision) ==
    IF Len(zones) = 0
    THEN <<[startMark |-> RInt(0), endMark |-> pageHeightCm, height |-> pageHeightCm]>>
    ELSE ZoneDetector_between(zones, 1, precision,
             ZoneDetector_before(zones, precision))
         \o ZoneDetector_after(zones, pageHeightCm, precision)

----------------------------------------------------------------------------
(* utils/zoneDetection.utils.                                              *)

\* the zone createZone of zoneDetection.utils returns for the raw marks
createZone_rounded(startMark, endMark, precision) ==
    [startMark |-> roundValue(startMark, precision),
     endMark   |-> roundValue(endMark, precision),
     height    |-> roundValue(RSub(endMark, startMark), precision)]

\* createZone of zoneDetection.utils
createZone(startPixel, endPixel, totalPixels, pageHeight, precision) ==
    createZone_rounded(pixelToPagePosition(startPixel, totalPixels, pageHeight),
                       pixelToPagePosition(endPixel, totalPixels, pageHeight),
                       precision)

\* matchesDetection, the closure of detectZonesInColumn
matchesDetection(grayValue, threshold, detectionType) ==
    IF detectionType = "dark" THEN grayValue < threshold
                              ELSE grayValue >= threshold

\* one iteration of the for loop of detectZonesInColumn, at row y; st holds
\* inZone, zoneStart and zones
detectZonesInColumn_step(p, st, y, matches) ==
    IF matches /\ ~st.inZone
    THEN [inZone |-> TRUE, zoneStart |-> y, zones |-> st.zones]
    ELSE IF ~matches /\ st.inZone
    THEN [inZone    |-> FALSE,
          zoneStart |-> -1,
          zones     |-> Append(st.zones,
                            createZone(st.zoneStart, y - 1, p.imageData.height,
                                       p.pageHeight, p.precision))]
    ELSE st

\* the iterations y = lo .. hi - 1 of the for loop, in order, from st.  The
\* range is run as its two halves, one after the other, which keeps the
\* evaluation shallow on a tall grid; the test on st.inZone, always true,
\* has st evaluated before the rows that follow it.
RECURSIVE detectZonesInColumn_loop(_, _, _, _)
detectZonesInColumn_loop(p, st, lo, hi) ==
    IF st.inZone \in BOOLEAN /\ hi <= lo THEN st
    ELSE IF hi = lo + 1
    THEN detectZonesInColumn_step(p, st, lo,
             matchesDetection(getPixelGray(p.imageData, p.columnX, lo),
                              p.threshold, p.detectionType))
    ELSE detectZonesInColumn_loop(p,
             detectZonesInColumn_loop(p, st, lo, (lo + hi) \div 2),
             (lo + hi) \div 2, hi)

\* the closing of a zone still open after the last row
detectZonesInColumn_close(p, st) ==
    IF st.inZone /\ st.zoneStart # -1
    THEN Append(st.zones,
             createZone(st.zoneStart, p.imageData.height - 1, p.imageData.height,
                        p.pageHeight, p.precision))
    ELSE st.zones

\* detectZonesInColumn past its column check: the scan of the column
detectZonesInColumn_scan(p) ==
    detectZonesInColumn_close(p,
        detectZonesInColumn_loop(p,
            [inZone |-> FALSE, zoneStart |-> -1, zones |-> <<>>],
            0, p.imageData.height))

\* detectZonesInColumn
detectZonesInColumn(p) ==
    IF p.columnX < 0 \/ p.columnX >= p.imageData.width
    THEN <<>>
    ELSE detectZonesInColumn_scan(p)

\* getColumnXForPage, were it to round up with Math.ceil
getColumnXForPage_ceil(page, totalPages, imageWidth) ==
    MathCeil(RMulInt(Rat(imageWidth, totalPages), page))

\* getColumnXForPage
getColumnXForPage(page, totalPages, imageWidth) ==
    LET pixelsPerPage == Rat(imageWidth, totalPages)
        bookX         == RMulInt(pixelsPerPage, page)
    IN  MathFloor(bookX)

----------------------------------------------------------------------------
(* The modes built on CutModeBase (services/cutModes).  A context is the   *)
(* GenerationContext record of CutModeBase.execute.                        *)

\* an optional parameter: <<>> when undefined, <<v>> when given
Given(opt) == opt # <<>>

\* the column of a page: Math.floor(page * pixelsPerPage)
CutModeBase_columnX(context, page) ==
    MathFloor(RMulInt(Rat(context.imageData.width, context.physicalPages), page))

\* the detectZones call of CutModeBase.generatePattern for one page
CutModeBase_detect(context, page, detectDarkZones) ==
    detectZones([imageData    |-> context.imageData,
                 columnX      |-> CutModeBase_columnX(context, page),
                 threshold    |-> context.threshold,
                 pageHeightCm |-> context.pageHeightCm,
                 precision    |-> context.precision,
                 detectDark   |-> detectDarkZones])

\* the PagePattern CutModeBase.generatePattern pushes
CutModeBase_page(page, zones) ==
    [page |-> page + 1, zones |-> zones, hasContent |-> Len(zones) > 0]

\* CutModeBase.generatePattern, with the subclass's detectDarkZones
CutModeBase_generatePattern(context, detectDarkZones) ==
    [i \in 1..context.physicalPages |->
        CutModeBase_page(i - 1, CutModeBase_detect(context, i - 1, detectDarkZones))]

\* ShadowFoldMode.shouldSkipPage, were "2:1" to skip the first page of each
\* three instead of the last
ShadowFoldMode_shouldSkipPage_first(pageIndex, shadowFoldType) ==
    IF shadowFoldType = "1:1"
    THEN pageIndex % 2 = 1
    ELSE pageIndex % 3 = 0

\* ShadowFoldMode.shouldSkipPage
ShadowFoldMode_shouldSkipPage(pageIndex, shadowFoldType) ==
    IF shadowFoldType = "1:1"
    THEN pageIndex % 2 = 1
    ELSE (pageIndex + 1) % 3 = 0

\* the forEach of ShadowFoldMode.generatePattern, were it to mark the
\* skipped pages and leave their zones
ShadowFoldMode_map_keep(pattern, shadowFoldType) ==
    [i \in 1..Len(pattern) |->
        [page |-> pattern[i].page, zones |-> pattern[i].zones,
         hasContent |-> pattern[i].hasContent,
         isSkipped |-> ShadowFoldMode_shouldSkipPage(i - 1, shadowFoldType)]]

\* the pattern.map of ShadowFoldMode.generatePattern
ShadowFoldMode_map(pattern, shadowFoldType) ==
    [i \in 1..Len(pattern) |->
        IF ShadowFoldMode_shouldSkipPage(i - 1, shadowFoldType)
        THEN [page |-> pattern[i].page, zones |-> <<>>,
              hasContent |-> FALSE, isSkipped |-> TRUE]
        ELSE [page |-> pattern[i].page, zones |-> pattern[i].zones,
              hasContent |-> pattern[i].hasContent, isSkipped |-> FALSE]]

\* ShadowFoldMode.generatePattern
ShadowFoldMode_generatePattern(context) ==
    ShadowFoldMode_map(CutModeBase_generatePattern(context, TRUE),
                       IF Given(context.params.shadowFoldType)
                       THEN context.params.shadowFoldType[1] ELSE "1:1")

\* MMFMode.combineZones, were it to keep the extent of the first zone
MMFMode_extent_first(zones, k, minStart, maxEnd) == <<minStart, maxEnd>>

\* the for loop of MMFMode.combineZones over zones[k..]
RECURSIVE MMFMode_extent(_, _, _, _)
MMFMode_extent(zones, k, minStart, maxEnd) ==
    IF k > Len(zones) THEN <<minStart, maxEnd>>
    ELSE MMFMode_extent(zones, k + 1, RMin(minStart, zones[k].startMark),
                        RMax(maxEnd, zones[k].endMark))

\* the zone MMFMode.combineZones returns for the extent <<minStart, maxEnd>>
MMFMode_combined(ext, precision) ==
    [startMark |-> format(ext[1], precision),
     endMark   |-> format(ext[2], precision),
     height    |-> format(RSub(ext[2], ext[1]), precision)]

\* MMFMode.combineZones; <<>> stands for null
MMFMode_combineZones(zones, precision) ==
    IF Len(zones) = 0 THEN <<>>
    ELSE <<MMFMode_combined(
               MMFMode_extent(zones, 1, zones[1].startMark, zones[1].endMark),
               precision)>>

\* MMFMode's PagePattern, were hasContent set whatever the column holds
MMFMode_page_always(page, combinedZone) ==
    [page |-> page + 1, zones |-> combinedZone, hasContent |-> TRUE]

\* the PagePattern MMFMode.generatePattern pushes
MMFMode_page(page, combinedZone) ==
    IF combinedZone # <<>>
    THEN [page |-> page + 1, zones |-> combinedZone, hasContent |-> TRUE]
    ELSE [page |-> page + 1, zones |-> <<>>, hasContent |-> FALSE]

\* MMFMode.generatePattern
MMFMode_generatePattern(context) ==
    [i \in 1..context.physicalPages |->
        MMFMode_page(i - 1,
            MMFMode_combineZones(CutModeBase_detect(context, i - 1, TRUE),
                                 context.precision))]

\* the edge width of CombiMode: combiEdgeWidth || 2 also replaces a width of 0
CombiMode_edgeWidth(context) ==
    IF Given(context.params.combiEdgeWidth)
       /\ context.params.combiEdgeWidth[1].n # 0
    THEN context.params.combiEdgeWidth[1] ELSE RInt(2)

\* CombiMode.generatePattern, were it to add the top edge only
CombiMode_edges_top(edgeWidth, pageHeightCm, precision) ==
    <<[startMark  |-> RInt(0),
       endMark    |-> format(edgeWidth, precision),
       height     |-> format(edgeWidth, precision),
       isEdgeFold |-> TRUE]>>

\* topEdge and bottomEdge of CombiMode.generatePattern
CombiMode_edges(edgeWidth, pageHeightCm, precision) ==
    <<[startMark  |-> RInt(0),
       endMark    |-> format(edgeWidth, precision),
       height     |-> format(edgeWidth, precision),
       isEdgeFold |-> TRUE],
      [startMark  |-> format(RSub(pageHeightCm, edgeWidth), precision),
       endMark    |-> format(pageHeightCm, precision),
       height     |-> format(edgeWidth, precision),
       isEdgeFold |-> TRUE]>>

\* the pattern.map of CombiMode.generatePattern
CombiMode_map(pattern, edges) ==
    [i \in 1..Len(pattern) |->
        [page |-> pattern[i].page,
         zones |-> edges \o pattern[i].zones,
         hasContent |-> TRUE]]

\* CombiMode.generatePattern
CombiMode_generatePattern(context) ==
    CombiMode_map(CutModeBase_generatePattern(context, TRUE),
                  CombiMode_edges(CombiMode_edgeWidth(context),
                                  context.pageHeightCm, context.precision))

\* the registry of PatternGeneratorService
modeRegistry == {"Inverted", "Embossed", "Combi", "Shadow Fold", "MMF"}

\* the generatePattern the instantiated mode class runs
Mode_generatePattern(cutMode, context) ==
    CASE cutMode = "Inverted"    -> CutModeBase_generatePattern(context, TRUE)
      [] cutMode = "Embossed"    -> CutModeBase_generatePattern(context, FALSE)
      [] cutMode = "Combi"       -> CombiMode_generatePattern(context)
      [] cutMode = "Shadow Fold" -> ShadowFoldMode_generatePattern(context)
      [] cutMode = "MMF"         -> MMFMode_generatePattern(context)

\* CutModeBase.validateParams: <<>> when it returns, else the message of the
\* Error it throws
CutModeBase_validateParams(p) ==
    IF ~p.processedImage THEN <<"Image traitee manquante">>
    ELSE IF p.threshold < 0 \/ p.threshold > 255
    THEN <<"Threshold doit etre entre 0 et 255">>
    ELSE IF RLe(p.pageHeight, RInt(0)) THEN <<"Hauteur de page doit etre > 0">>
    ELSE IF p.lastPageNumber <= 0 THEN <<"Nombre de pages doit etre > 0">>
    ELSE <<>>

----------------------------------------------------------------------------
(* The services behind GenerateService (services/cutModes/*.service).      *)

\* a page the static services push when the column is outside the image
EmptyPage(page) == [page |-> page + 1, zones |-> <<>>, hasContent |-> FALSE]

\* the PagePattern the services push for a scanned column
Service_page(page, zones) ==
    [page |-> page + 1, zones |-> zones, hasContent |-> Len(zones) > 0]

\* InvertedService.generatePattern and EmbossedService.generatePattern on
\* BaseCutModeService: the two differ in detectionType only
BaseCutModeService_generatePattern(gp, detectionType) ==
    [i \in 1..gp.bookPages |->
        Service_page(i - 1,
            detectZonesInColumn(
                [imageData     |-> gp.imageData,
                 columnX       |-> getColumnXForPage(i - 1, gp.bookPages,
                                                     gp.imageData.width),
                 pageHeight    |-> gp.pageHeight,
                 threshold     |-> gp.threshold,
                 precision     |-> gp.precision,
                 detectionType |-> detectionType]))]

\* the column of a page in the static services:
\* Math.floor(page * (width / bookPages))
StaticService_x(gp, page) ==
    MathFloor(RMulInt(Rat(gp.imageData.width, gp.bookPages), page))

\* the dark scan inlined in the static services: the scan of
\* detectZonesInColumn with the dark test
StaticService_scan(gp, x, precision) ==
    detectZonesInColumn_scan([imageData     |-> gp.imageData,
                              columnX       |-> x,
                              pageHeight    |-> gp.pageHeight,
                              threshold     |-> gp.threshold,
                              precision     |-> precision,
                              detectionType |-> "dark"])

\* ShadowFoldService.shouldSkipPage
ShadowFoldService_shouldSkipPage(pageIndex, shadowFoldType) ==
    IF shadowFoldType = "regular"
    THEN pageIndex % 2 = 1
    ELSE (pageIndex + 1) % 3 = 0

\* one page of ShadowFoldService.generatePattern
ShadowFoldService_page(gp, page, x, isSkipped) ==
    IF x < 0 \/ x >= gp.imageData.width \/ isSkipped
    THEN [page |-> page + 1, zones |-> <<>>, hasContent |-> FALSE,
          isSkipped |-> isSkipped]
    ELSE [isSkipped |-> FALSE] @@
         Service_page(page, StaticService_scan(gp, x, gp.precision))

\* ShadowFoldService.generatePattern
ShadowFoldService_generatePattern(gp, shadowFoldType) ==
    [i \in 1..gp.bookPages |->
        ShadowFoldService_page(gp, i - 1, StaticService_x(gp, i - 1),
            ShadowFoldService_shouldSkipPage(i - 1, shadowFoldType))]

\* the unrounded {start, end} pairs MMFService.detectAllZones returns
MMFService_pairs(raw) ==
    [k \in 1..Len(raw) |-> [start |-> raw[k].startMark, end |-> raw[k].endMark]]

\* MMFService.detectAllZones: the dark scan before any rounding
MMFService_detectAllZones(gp, x) ==
    MMFService_pairs(StaticService_scan(gp, x, "exact"))

\* the for loop of MMFService.convertToMMFPair over zones[k..]
RECURSIVE MMFService_extent(_, _, _, _)
MMFService_extent(zones, k, minStart, maxEnd) ==
    IF k > Len(zones) THEN <<minStart, maxEnd>>
    ELSE MMFService_extent(zones, k + 1, RMin(minStart, zones[k].start),
                           RMax(maxEnd, zones[k].end))

\* the zone MMFService.convertToMMFPair returns for the extent
\* <<minStart, maxEnd>>
MMFService_pair(ext, precision) ==
    [startMark |-> roundValue(ext[1], precision),
     endMark   |-> roundValue(ext[2], precision),
     height    |-> roundValue(RSub(ext[2], ext[1]), precision)]

\* MMFService.convertToMMFPair; <<>> stands for null
MMFService_convertToMMFPair(zones, precision) ==
    IF Len(zones) = 0 THEN <<>>
    ELSE <<MMFService_pair(
               MMFService_extent(zones, 1, zones[1].start, zones[1].end),
               precision)>>

\* one page of MMFService.generatePattern
MMFService_page(page, mmfPair) ==
    IF mmfPair # <<>>
    THEN [page |-> page + 1, zones |-> mmfPair, hasContent |-> TRUE]
    ELSE EmptyPage(page)

\* one column of MMFService.generatePattern
MMFService_column(gp, page, x) ==
    IF x < 0 \/ x >= gp.imageData.width
    THEN EmptyPage(page)
    ELSE MMFService_page(page,
             MMFService_convertToMMFPair(MMFService_detectAllZones(gp, x),
                                         gp.precision))

\* MMFService.generatePattern (the pattern it returns; the warning counters
\* only feed the message)
MMFService_generatePattern(gp) ==
    [i \in 1..gp.bookPages |-> MMFService_column(gp, i - 1, StaticService_x(gp, i - 1))]

\* a centre zone CombiService pushes for the raw marks
CombiService_zone(startMark, endMark, precision) ==
    [startMark  |-> roundValue(startMark, precision),
     endMark    |-> roundValue(endMark, precision),
     height     |-> roundValue(RSub(endMark, startMark), precision),
     isEdgeFold |-> FALSE]

\* a centre zone CombiService pushes inside the loop for the pixel range
\* [zoneStart, zoneEnd]
CombiService_centerZone(zoneStart, zoneEnd, height, pageHeight, precision) ==
    CombiService_zone(RMul(Rat(zoneStart, height), pageHeight),
                      RMul(Rat(zoneEnd, height), pageHeight), precision)

\* the closing of a zone still open after the last row, in
\* CombiService.generatePattern
CombiService_close(gp, edgeWidth, zoneStart, yPos, zones) ==
    IF RLe(yPos, RSub(gp.pageHeight, edgeWidth))
    THEN Append(zones,
             CombiService_zone(
                 RMul(Rat(zoneStart, gp.imageData.height), gp.pageHeight),
                 RMin(yPos, RSub(gp.pageHeight, edgeWidth)),
                 gp.precision))
    ELSE zones

\* the centre scan of CombiService.generatePattern from row y on
RECURSIVE CombiService_scan(_, _, _, _, _, _, _)
\* one row of the scan, at page position yPos
CombiService_row(gp, edgeWidth, x, y, inZone, zoneStart, zones, yPos) ==
    IF RLt(yPos, edgeWidth) \/ RLt(RSub(gp.pageHeight, edgeWidth), yPos)
    THEN IF inZone /\ zoneStart # -1
         THEN CombiService_scan(gp, edgeWidth, x, y + 1, FALSE, -1,
                  Append(zones, CombiService_centerZone(zoneStart, y - 1,
                             gp.imageData.height, gp.pageHeight, gp.precision)))
         ELSE CombiService_scan(gp, edgeWidth, x, y + 1, inZone, zoneStart, zones)
    ELSE IF getPixelGray(gp.imageData, x, y) < gp.threshold /\ ~inZone
    THEN CombiService_scan(gp, edgeWidth, x, y + 1, TRUE, y, zones)
    ELSE IF ~(getPixelGray(gp.imageData, x, y) < gp.threshold) /\ inZone
    THEN CombiService_scan(gp, edgeWidth, x, y + 1, FALSE, -1,
             Append(zones, CombiService_centerZone(zoneStart, y - 1,
                        gp.imageData.height, gp.pageHeight, gp.precision)))
    ELSE CombiService_scan(gp, edgeWidth, x, y + 1, inZone, zoneStart, zones)

CombiService_scan(gp, edgeWidth, x, y, inZone, zoneStart, zones) ==
    IF y >= gp.imageData.height
    THEN IF inZone /\ zoneStart # -1
         THEN CombiService_close(gp, edgeWidth, zoneStart,
                  RMul(Rat(gp.imageData.height - 1, gp.imageData.height),
                       gp.pageHeight),
                  zones)
         ELSE zones
    ELSE CombiService_row(gp, edgeWidth, x, y, inZone, zoneStart, zones,
                          RMul(Rat(y, gp.imageData.height), gp.pageHeight))

\* zones.sort((a, b) => a.startMark - b.startMark): a stable sort, here by
\* insertion of zones[k..] into the sorted prefix
RECURSIVE InsertByStartMark(_, _)
InsertByStartMark(sorted, z) ==
    IF sorted = <<>> THEN <<z>>
    ELSE IF RLt(z.startMark, sorted[Len(sorted)].startMark)
    THEN Append(InsertByStartMark(SubSeq(sorted, 1, Len(sorted) - 1), z),
                sorted[Len(sorted)])
    ELSE Append(sorted, z)

RECURSIVE SortByStartMark(_, _, _)
SortByStartMark(zones, k, sorted) ==
    IF k > Len(zones) THEN sorted
    ELSE SortByStartMark(zones, k + 1, InsertByStartMark(sorted, zones[k]))

\* the two edge folds CombiService.generatePattern pushes first
CombiService_edges(gp, edgeWidth) ==
    <<[startMark  |-> roundValue(RInt(0), gp.precision),
       endMark    |-> roundValue(edgeWidth, gp.precision),
       height     |-> roundValue(edgeWidth, gp.precision),
       isEdgeFold |-> TRUE],
      [startMark  |-> roundValue(RSub(gp.pageHeight, edgeWidth), gp.precision),
       endMark    |-> roundValue(gp.pageHeight, gp.precision),
       height     |-> roundValue(edgeWidth, gp.precision),
       isEdgeFold |-> TRUE]>>

\* the PagePattern CombiService.generatePattern pushes for the sorted zones
CombiService_page(page, sorted) ==
    [page |-> page + 1, zones |-> sorted, hasContent |-> Len(sorted) > 2]

\* one column of CombiService.generatePattern
CombiService_column(gp, edgeWidth, page, x) ==
    IF x < 0 \/ x >= gp.imageData.width
    THEN EmptyPage(page)
    ELSE CombiService_page(page,
             SortByStartMark(
                 CombiService_scan(gp, edgeWidth, x, 0, FALSE, -1,
                                   CombiService_edges(gp, edgeWidth)),
                 1, <<>>))

\* CombiService.generatePattern
CombiService_generatePattern(gp, edgeWidth) ==
    [i \in 1..gp.bookPages |->
        CombiService_column(gp, edgeWidth, i - 1, StaticService_x(gp, i - 1))]

----------------------------------------------------------------------------
(* execute of the modes and services.  execute runs synchronously up to    *)
(* its await of the pixel grid: _start is that first part and yields <<>>  *)
(* when the await is reached, or <<r>> when execute returns r before it;   *)
(* _resume is the part after the grid is there; _catch is the catch block. *)
(* A mode result is [success, message, data], data being <<>> when absent. *)

MIN_PAGES == 1
MIN_PAGE_HEIGHT == Rat(1, 10)
MAX_PAGE_HEIGHT == 100

\* the modeName of each CutModeBase subclass
modeName(cutMode) ==
    CASE cutMode = "Inverted"    -> "inverted"
      [] cutMode = "Embossed"    -> "embossed"
      [] cutMode = "Combi"       -> "combi"
      [] cutMode = "Shadow Fold" -> "shadowFold"
      [] cutMode = "MMF"         -> "mmf"

\* the GenerationParams PatternGeneratorService.generate builds
generationParams(p) ==
    [processedImage |-> TRUE,
     threshold      |-> p.threshold[1],
     lastPageNumber |-> p.lastPageNumber,
     pageHeight     |-> p.pageHeight,
     pageHeightUnit |-> p.pageHeightUnit[1],
     precision      |-> p.precision[1],
     shadowFoldType |-> p.shadowFoldType,
     combiEdgeWidth |-> p.combiEdgeWidth]

\* CutModeBase.execute's catch block, were it to hand back what had been
\* built so far
CutModeBase_execute_catch_partial(cutMode, message) ==
    [success |-> FALSE,
     message |-> <<"Erreur generation", modeName(cutMode), message>>,
     data    |-> <<[mode |-> modeName(cutMode), pattern |-> <<>>]>>]

\* the catch block of CutModeBase.execute
CutModeBase_execute_catch(cutMode, message) ==
    [success |-> FALSE,
     message |-> <<"Erreur generation", modeName(cutMode), message>>,
     data    |-> <<>>]

\* CutModeBase.execute, were it to skip validateParams
CutModeBase_execute_start_unchecked(cutMode, gparams) == <<>>

\* CutModeBase.execute up to `await this.loadImageData`
CutModeBase_execute_start(cutMode, gparams) ==
    LET error == CutModeBase_validateParams(gparams)
    IN  IF error # <<>>
        THEN <<CutModeBase_execute_catch(cutMode, error[1])>>
        ELSE <<>>

\* CutModeBase.execute once loadImageData has resolved with img
CutModeBase_execute_resume(cutMode, gparams, img) ==
    LET pageHeightCm  == toCm(gparams.pageHeight, gparams.pageHeightUnit)
        physicalPages == calculatePhysicalPages(gparams.lastPageNumber)
        pattern == Mode_generatePattern(cutMode,
                       [imageData     |-> img,
                        pageHeightCm  |-> pageHeightCm,
                        physicalPages |-> physicalPages,
                        threshold     |-> gparams.threshold,
                        precision     |-> gparams.precision,
                        params        |-> gparams])
    IN  [success |-> TRUE,
         message |-> <<"Pattern genere avec succes", modeName(cutMode)>>,
         data    |-> <<[mode |-> modeName(cutMode), pattern |-> pattern]>>]

\* validateCutModeParams; lastPageNumber and pageHeight are numbers here
\* (an undefined one fails the same test as 0)
validateCutModeParams(p) ==
    IF p.lastPageNumber = 0 \/ p.lastPageNumber < MIN_PAGES
    THEN [success |-> FALSE, data |-> <<>>,
          message |-> <<"Le nombre de pages doit etre specifie et superieur a 0">>]
    ELSE IF \/ p.pageHeight.n = 0
            \/ RLt(p.pageHeight, MIN_PAGE_HEIGHT)
            \/ RLt(RInt(MAX_PAGE_HEIGHT), p.pageHeight)
    THEN [success |-> FALSE, data |-> <<>>,
          message |-> <<"La hauteur de page doit etre specifiee et superieure a 0">>]
    ELSE [success |-> TRUE, data |-> <<>>, message |-> <<"Validation reussie">>]

\* getParamsWithDefaults, were its default threshold 0
getParamsWithDefaults_zero(p) ==
    [threshold      |-> IF Given(p.threshold) THEN p.threshold[1] ELSE 0,
     precision      |-> IF Given(p.precision) THEN p.precision[1] ELSE "0.1mm",
     pageHeightUnit |-> IF Given(p.pageHeightUnit) THEN p.pageHeightUnit[1] ELSE "cm"]

\* getParamsWithDefaults
getParamsWithDefaults(p) ==
    [threshold      |-> IF Given(p.threshold) THEN p.threshold[1] ELSE 128,
     precision      |-> IF Given(p.precision) THEN p.precision[1] ELSE "0.1mm",
     pageHeightUnit |-> IF Given(p.pageHeightUnit) THEN p.pageHeightUnit[1] ELSE "cm"]

\* the catch block of BaseCutModeService.execute and of the static services
Service_execute_catch(cutMode, message) ==
    [success |-> FALSE,
     message |-> <<"Erreur lors de l'execution", cutMode, message>>,
     data    |-> <<>>]

\* BaseCutModeService.execute up to `await getImageData`
BaseCutModeService_execute_start(cutMode, p) ==
    LET validationResult == validateCutModeParams(p)
    IN  IF ~validationResult.success THEN <<validationResult>> ELSE <<>>

\* BaseCutModeService.execute once getImageData has resolved with img
BaseCutModeService_execute_resume(cutMode, p, img) ==
    LET defaults       == getParamsWithDefaults(p)
        pageHeightInCm == IF (IF Given(p.pageHeightUnit) THEN p.pageHeightUnit[1]
                                                         ELSE "cm") = "in"
                          THEN RMul(p.pageHeight, CM_TO_INCH) ELSE p.pageHeight
        physicalPages  == calculatePhysicalPages(p.lastPageNumber)
        pattern == BaseCutModeService_generatePattern(
                       [imageData  |-> img,
                        bookPages  |-> physicalPages,
                        pageHeight |-> pageHeightInCm,
                        threshold  |-> defaults.threshold,
                        precision  |-> defaults.precision],
                       IF cutMode = "Embossed" THEN "light" ELSE "dark")
    IN  [success |-> TRUE,
         message |-> <<"applique avec succes", cutMode>>,
         data    |-> <<[mode |-> cutMode, pattern |-> pattern]>>]

\* the edge width CombiService.execute works with
CombiService_edgeWidth(p) ==
    IF Given(p.combiEdgeWidth) THEN p.combiEdgeWidth[1] ELSE RInt(2)

\* the page height in cm the static services work with
StaticService_pageHeightInCm(p) ==
    IF Given(p.pageHeightUnit) /\ p.pageHeightUnit[1] = "in"
    THEN RMul(p.pageHeight, CM_TO_INCH) ELSE p.pageHeight

\* CombiService / ShadowFoldService / MMFService .execute up to
\* `await this.getImageData`: the two inline checks, and for Combi the
\* edge-width check
StaticService_execute_start(cutMode, p) ==
    IF p.lastPageNumber = 0 \/ p.lastPageNumber <= 0
    THEN <<[success |-> FALSE, data |-> <<>>,
            message |-> <<"Le nombre de pages doit etre specifie et superieur a 0">>]>>
    ELSE IF p.pageHeight.n = 0 \/ RLe(p.pageHeight, RInt(0))
    THEN <<[success |-> FALSE, data |-> <<>>,
            message |-> <<"La hauteur de page doit etre specifiee et superieure a 0">>]>>
    ELSE IF /\ cutMode = "Combi"
            /\ RLe(StaticService_pageHeightInCm(p), RMulInt(CombiService_edgeWidth(p), 2))
    THEN <<[success |-> FALSE, data |-> <<>>,
            message |-> <<"La largeur des bords est trop grande pour la hauteur de page">>]>>
    ELSE <<>>

\* CombiService / ShadowFoldService / MMFService .execute once getImageData
\* has resolved with img
StaticService_execute_resume(cutMode, p, img) ==
    LET gp == [imageData  |-> img,
               bookPages  |-> MathCeil(Rat(p.lastPageNumber, 2)),
               pageHeight |-> StaticService_pageHeightInCm(p),
               threshold  |-> IF Given(p.threshold) THEN p.threshold[1] ELSE 128,
               precision  |-> IF Given(p.precision) THEN p.precision[1] ELSE "0.1mm"]
        pattern ==
            CASE cutMode = "Combi" ->
                     CombiService_generatePattern(gp, CombiService_edgeWidth(p))
              [] cutMode = "Shadow Fold" ->
                     ShadowFoldService_generatePattern(gp,
                         IF Given(p.shadowFoldType) THEN p.shadowFoldType[1]
                                                    ELSE "regular")
              [] cutMode = "MMF" -> MMFService_generatePattern(gp)
    IN  [success |-> TRUE,
         message |-> <<"applique avec succes", cutMode>>,
         data    |-> <<[mode |-> cutMode, pattern |-> pattern]>>]

\* the modes GenerateService.generate switches on
serviceModes == {"Inverted", "Embossed", "Combi", "Shadow Fold", "MMF"}
baseServiceModes == {"Inverted", "Embossed"}

----------------------------------------------------------------------------
(* generate of the two orchestrators.  A result is                         *)
(* [success, message, imageProcessed, patternResult]: imageProcessed tells *)
(* whether imageProcessingResult is present, patternResult is <<>> when    *)
(* absent and <<r>> when it holds the mode result r.                       *)

NoResult == [success |-> FALSE, message |-> <<>>, imageProcessed |-> FALSE,
             patternResult |-> <<>>]

\* generate resolved with r / generate rejected
Returned(r) == [thrown |-> FALSE, result |-> r]
Rejected == [thrown |-> TRUE, result |-> NoResult]

\* PatternGeneratorService.generate, were its catch block to rethrow
PatternGeneratorService_catch_rethrow(message) == Rejected

\* the catch block of PatternGeneratorService.generate
PatternGeneratorService_catch(message) ==
    Returned([success |-> FALSE, message |-> <<"Erreur", message>>,
              imageProcessed |-> FALSE, patternResult |-> <<>>])

\* the catch block of GenerateService.generate
GenerateService_catch(message) ==
    Returned([success |-> FALSE,
              message |-> <<"Erreur lors de la generation", message>>,
              imageProcessed |-> FALSE, patternResult |-> <<>>])

\* the two returns that end generate once execute has resolved
\* (PatternGeneratorService.generate lines 85-101, GenerateService.generate
\* lines 119-133)
generate_return(service, modeResult) ==
    IF ~modeResult.success
    THEN Returned([success |-> FALSE, message |-> modeResult.message,
                   imageProcessed |-> TRUE, patternResult |-> <<modeResult>>])
    ELSE Returned([success |-> TRUE,
                   message |-> IF service = "PatternGeneratorService"
                               THEN <<"Pattern genere avec succes">>
                               ELSE <<"Generation terminee avec succes">>,
                   imageProcessed |-> TRUE, patternResult |-> <<modeResult>>])

\* execute of the mode or service generate dispatches to, up to its await
execute_start(service, p) ==
    IF service = "PatternGeneratorService"
    THEN CutModeBase_execute_start(p.cutMode, generationParams(p))
    ELSE IF p.cutMode \in baseServiceModes
    THEN BaseCutModeService_execute_start(p.cutMode, p)
    ELSE StaticService_execute_start(p.cutMode, p)

\* the same execute once the pixel grid is there
execute_resume(service, p, img) ==
    IF service = "PatternGeneratorService"
    THEN CutModeBase_execute_resume(p.cutMode, generationParams(p), img)
    ELSE IF p.cutMode \in baseServiceModes
    THEN BaseCutModeService_execute_resume(p.cutMode, p, img)
    ELSE StaticService_execute_resume(p.cutMode, p, img)

\* the same execute when the promise of the pixel grid rejects
execute_catch(service, p, message) ==
    IF service = "PatternGeneratorService"
    THEN CutModeBase_execute_catch(p.cutMode, message)
    ELSE Service_execute_catch(p.cutMode, message)

\* generate when execute returned early[1] before its await (<<>> otherwise)
generate_early(service, early) ==
    IF early # <<>> THEN <<generate_return(service, early[1])>> ELSE <<>>

\* generate from the moment processImage has resolved to the next await or
\* to its return: the mode lookup and the first part of execute.  <<>> when
\* execute is left awaiting the pixel grid.
generate_dispatch(service, p) ==
    IF service = "PatternGeneratorService" /\ p.cutMode \notin modeRegistry
    THEN <<PatternGeneratorService_catch("Mode de decoupe inconnu")>>
    ELSE IF service = "GenerateService" /\ p.cutMode \notin serviceModes
    THEN <<GenerateService_catch("Mode de cut inconnu")>>
    ELSE generate_early(service, execute_start(service, p))

\* generate when processImage rejects
generate_processRejected(service) ==
    IF service = "PatternGeneratorService"
    THEN PatternGeneratorService_catch("Erreur lors du chargement de l'image")
    ELSE GenerateService_catch("Erreur lors du chargement de l'image")

----------------------------------------------------------------------------
(* Bounds and input sets.                                                  *)

MaxLastPage == 5
MaxPixels == 4

Services == {"PatternGeneratorService", "GenerateService"}
CutModes == {"Inverted", "Embossed", "Combi", "Shadow Fold", "MMF", "Bogus"}
GrayLevels == {100, 128}
Thresholds == {-1, 128, 256}
LastPageNumbers == 0..MaxLastPage
PageHeights == {RInt(0), RInt(6)}

\* the mode-specific extras a call carries
Extras(service, cutMode) ==
    CASE cutMode = "Shadow Fold" ->
             IF service = "PatternGeneratorService"
             THEN {[shadowFoldType |-> <<t>>, combiEdgeWidth |-> <<>>] : t \in {"1:1", "2:1"}}
             ELSE {[shadowFoldType |-> <<t>>, combiEdgeWidth |-> <<>>] : t \in {"regular", "2/3"}}
      [] cutMode = "Combi" ->
             {[shadowFoldType |-> <<>>, combiEdgeWidth |-> e] :
                 e \in {<<>>, <<RInt(1)>>, <<RInt(3)>>}}
      [] OTHER -> {[shadowFoldType |-> <<>>, combiEdgeWidth |-> <<>>]}

ParamsOf(service) ==
    UNION {{[cutMode        |-> m,
             lastPageNumber |-> n,
             pageHeight     |-> h,
             pageHeightUnit |-> <<"cm">>,
             threshold      |-> <<t>>,
             precision      |-> <<"0.1mm">>,
             shadowFoldType |-> e.shadowFoldType,
             combiEdgeWidth |-> e.combiEdgeWidth] :
               n \in LastPageNumbers, h \in PageHeights, t \in Thresholds,
               e \in Extras(service, m)} : m \in CutModes}

\* every pixel grid of at most MaxPixels pixels over GrayLevels
Images ==
    UNION {{[width |-> w, height |-> h, data |-> d] : d \in [1..(w * h) -> GrayLevels]} :
              <<w, h>> \in {wh \in (1..MaxPixels) \X (1..MaxPixels) :
                               wh[1] * wh[2] <= MaxPixels}}

\* the code built on PrecisionManager
CoreCode == {"ZoneDetector", "PatternGeneratorService", "MMFMode.combineZones"}

\* the precisions each detector, orchestrator or collapse accepts:
\* PrecisionType for the code built on PrecisionManager, Precision for the
\* code built on roundValue
PrecisionsOf(caller) ==
    IF caller \in CoreCode
    THEN {"0.1mm", "0.5mm", "1mm"}
    ELSE {"exact", "0.1mm", "0.5mm", "1mm"}

\* usePatternGenerator before anything happened: the initial values of
\* the two contexts and of its three useState
NoHook == [unit |-> "cm", precision |-> "0.1mm", result |-> <<>>,
           lastParams |-> <<>>, isGenerating |-> FALSE]

NoImage == [width |-> 0, height |-> 0, data |-> <<>>]
NoCall == [cutMode |-> "none"]

----------------------------------------------------------------------------
(* One generate call.                                                      *)

Init ==
    /\ pc = "idle"
    /\ svc \in Services
    /\ params \in ParamsOf(svc)
    /\ imageWork = <<>>
    /\ procOutcome = "pending"
    /\ loadOutcome = "pending"
    /\ imageData = NoImage
    /\ result = NoResult
    /\ thrown = FALSE
    /\ hook = NoHook
    /\ requests = <<>>
    /\ zin = NoCall
    /\ zout = <<>>

\* generate settles with out: it resolves with a result or rejects
Settles(out) ==
    /\ result' = out.result
    /\ thrown' = out.thrown

\* generate after its dispatch: settled with out[1], or left awaiting the
\* pixel grid the mode has started to load
Dispatched(out) ==
    IF out # <<>>
    THEN /\ Settles(out[1])
         /\ pc' = "done"
         /\ imageWork' = imageWork
    ELSE /\ pc' = "loadImage"
         /\ imageWork' = Append(imageWork, "loadImageData")
         /\ UNCHANGED <<result, thrown>>

\* generate is called: it starts ImageProcessingService.processImage and
\* awaits it
Generate ==
    /\ pc = "idle"
    /\ pc' = "processImage"
    /\ imageWork' = Append(imageWork, "processImage")
    /\ UNCHANGED <<hook, requests, svc, params, procOutcome, loadOutcome, imageData, result,
                   thrown, zin, zout>>

\* processImage rejects (FileReader or Image error, no canvas context)
ProcessImageRejects ==
    /\ pc = "processImage"
    /\ procOutcome' = "error"
    /\ Settles(generate_processRejected(svc))
    /\ pc' = "done"
    /\ UNCHANGED <<hook, requests, svc, params, imageWork, loadOutcome, imageData, zin, zout>>

\* processImage resolves: generate looks the mode up and calls execute,
\* which validates and then either returns or awaits the pixel grid
ProcessImageResolves ==
    /\ pc = "processImage"
    /\ procOutcome' = "ok"
    /\ Dispatched(generate_dispatch(svc, params))
    /\ UNCHANGED <<hook, requests, svc, params, loadOutcome, imageData, zin, zout>>

\* loadImageData / getImageData rejects: the catch block of execute answers
LoadImageRejects ==
    /\ pc = "loadImage"
    /\ loadOutcome' = "error"
    /\ Settles(generate_return(svc,
                   execute_catch(svc, params, "Failed to load image")))
    /\ pc' = "done"
    /\ UNCHANGED <<hook, requests, svc, params, imageWork, procOutcome, imageData, zin, zout>>

\* loadImageData / getImageData resolves with a pixel grid of the set
\* grids: execute generates the pattern and generate returns
LoadImageResolvesWith(grids) ==
    /\ pc = "loadImage"
    /\ \E img \in grids :
         /\ imageData' = img
         /\ Settles(generate_return(svc, execute_resume(svc, params, img)))
    /\ loadOutcome' = "ok"
    /\ pc' = "done"
    /\ UNCHANGED <<hook, requests, svc, params, imageWork, procOutcome, zin, zout>>

LoadImageResolves == LoadImageResolvesWith(Images)

Next ==
    \/ Generate
    \/ ProcessImageRejects
    \/ ProcessImageResolves
    \/ LoadImageRejects
    \/ LoadImageResolves

Spec == Init /\ [][Next]_vars

----------------------------------------------------------------------------
(* One call of a zone detector on its own: any grid, any column from one   *)
(* left of the grid to one right of it, either polarity.                   *)

Detectors == {"ZoneDetector", "detectZonesInColumn"}
ZoneThresholds == {128, 256}
ZonePageHeights == {Rat(1, 10), RInt(1), RInt(6)}


\* a call of a detector
ZoneCall(d, img, x, t, dark, h, pr) ==
    [detector   |-> d,
     imageData  |-> img,
     columnX    |-> x,
     threshold  |-> t,
     detectDark |-> dark,
     pageHeight |-> h,
     precision  |-> pr]

InitZones ==
    /\ pc = "zoneCall"
    /\ \E d \in Detectors, img \in Images, t \in ZoneThresholds,
          dark \in BOOLEAN, h \in ZonePageHeights :
          \E x \in -1..img.width, pr \in PrecisionsOf(d) :
              zin = ZoneCall(d, img, x, t, dark, h, pr)
    /\ zout = <<>>
    /\ svc = "none"
    /\ params = NoCall
    /\ imageWork = <<>>
    /\ procOutcome = "pending"
    /\ loadOutcome = "pending"
    /\ imageData = NoImage
    /\ result = NoResult
    /\ thrown = FALSE
    /\ hook = NoHook
    /\ requests = <<>>

\* ZoneDetector.detectZones is called with zin
DetectZones ==
    /\ pc = "zoneCall"
    /\ zin.detector = "ZoneDetector"
    /\ zout' = detectZones([imageData    |-> zin.imageData,
                            columnX      |-> zin.columnX,
                            threshold    |-> zin.threshold,
                            pageHeightCm |-> zin.pageHeight,
                            precision    |-> zin.precision,
                            detectDark   |-> zin.detectDark])
    /\ pc' = "zoneDone"
    /\ UNCHANGED <<hook, requests, svc, params, imageWork, procOutcome, loadOutcome, imageData,
                   result, thrown, zin>>

\* detectZonesInColumn is called with zin
DetectZonesInColumn ==
    /\ pc = "zoneCall"
    /\ zin.detector = "detectZonesInColumn"
    /\ zout' = detectZonesInColumn(
                   [imageData     |-> zin.imageData,
                    columnX       |-> zin.columnX,
                    pageHeight    |-> zin.pageHeight,
                    threshold     |-> zin.threshold,
                    precision     |-> zin.precision,
                    detectionType |-> IF zin.detectDark THEN "dark" ELSE "light"])
    /\ pc' = "zoneDone"
    /\ UNCHANGED <<hook, requests, svc, params, imageWork, procOutcome, loadOutcome, imageData,
                   result, thrown, zin>>

NextZones ==
    \/ DetectZones
    \/ DetectZonesInColumn

SpecZones == InitZones /\ [][NextZones]_vars

----------------------------------------------------------------------------
(* One generate call on a book of ten physical pages and a grid 200 rows   *)
(* high whose column for page 3 holds one dark run, rows 40..59.           *)

\* the grid of width w: the column of page 3 is light but for the rows
\* 40..59, every other column is filled with the gray level other
RunGrid(w, dark, light, other) ==
    [width |-> w, height |-> 200,
     data |-> [k \in 1..(w * 200) |->
                 IF (k - 1) % w = (2 * w) \div 10
                 THEN IF (k - 1) \div w \in 40..59 THEN dark ELSE light
                 ELSE other]]

RunGrids ==
    {RunGrid(w, dark, light, other) :
        w \in {10, 12, 15, 20}, dark \in {0, 127}, light \in {128, 255},
        other \in {0, 255}}

RunParams ==
    {[cutMode        |-> "Inverted",
      lastPageNumber |-> n,
      pageHeight     |-> RInt(20),
      pageHeightUnit |-> <<"cm">>,
      threshold      |-> <<128>>,
      precision      |-> <<"0.1mm">>,
      shadowFoldType |-> <<>>,
      combiEdgeWidth |-> <<>>] : n \in {19, 20}}

InitRun ==
    /\ pc = "idle"
    /\ svc \in Services
    /\ params \in RunParams
    /\ imageWork = <<>>
    /\ procOutcome = "pending"
    /\ loadOutcome = "pending"
    /\ imageData = NoImage
    /\ result = NoResult
    /\ thrown = FALSE
    /\ hook = NoHook
    /\ requests = <<>>
    /\ zin = NoCall
    /\ zout = <<>>

LoadRunGridResolves == LoadImageResolvesWith(RunGrids)

NextRun ==
    \/ Generate
    \/ ProcessImageRejects
    \/ ProcessImageResolves
    \/ LoadImageRejects
    \/ LoadRunGridResolves

SpecRun == InitRun /\ [][NextRun]_vars

----------------------------------------------------------------------------
(* One Shadow Fold call on a book of up to MaxBookLastPage pages, with     *)
(* either period or none (the default).                                    *)

MaxBookLastPage == 18

BookParams(service) ==
    {[cutMode        |-> "Shadow Fold",
      lastPageNumber |-> n,
      pageHeight     |-> RInt(6),
      pageHeightUnit |-> <<"cm">>,
      threshold      |-> <<128>>,
      precision      |-> <<"0.1mm">>,
      shadowFoldType |-> e.shadowFoldType,
      combiEdgeWidth |-> <<>>] :
        n \in 1..MaxBookLastPage,
        e \in Extras(service, "Shadow Fold") \cup
                 {[shadowFoldType |-> <<>>, combiEdgeWidth |-> <<>>]}}

InitBook ==
    /\ pc = "idle"
    /\ svc \in Services
    /\ params \in BookParams(svc)
    /\ imageWork = <<>>
    /\ procOutcome = "pending"
    /\ loadOutcome = "pending"
    /\ imageData = NoImage
    /\ result = NoResult
    /\ thrown = FALSE
    /\ hook = NoHook
    /\ requests = <<>>
    /\ zin = NoCall
    /\ zout = <<>>

SpecBook == InitBook /\ [][Next]_vars

----------------------------------------------------------------------------
(* One Combi call: page heights in cm and in inches, edge widths below and *)
(* above half the page, every precision the orchestrator accepts.          *)

CombiParams(service) ==
    {[cutMode        |-> "Combi",
      lastPageNumber |-> n,
      pageHeight     |-> h,
      pageHeightUnit |-> <<u>>,
      threshold      |-> <<128>>,
      precision      |-> <<pr>>,
      shadowFoldType |-> <<>>,
      combiEdgeWidth |-> e] :
        n \in {1, 3}, h \in {RInt(2), RInt(4)}, u \in {"cm", "in"},
        pr \in PrecisionsOf(service),
        e \in {<<>>, <<RInt(1)>>, <<Rat(5, 2)>>}}

InitCombi ==
    /\ pc = "idle"
    /\ svc \in Services
    /\ params \in CombiParams(svc)
    /\ imageWork = <<>>
    /\ procOutcome = "pending"
    /\ loadOutcome = "pending"
    /\ imageData = NoImage
    /\ result = NoResult
    /\ thrown = FALSE
    /\ hook = NoHook
    /\ requests = <<>>
    /\ zin = NoCall
    /\ zout = <<>>

SpecCombi == InitCombi /\ [][Next]_vars

----------------------------------------------------------------------------
(* One call of MMF's collapse on its own: MMFMode.combineZones on zones    *)
(* {startMark, endMark, height}, MMFService.convertToMMFPair on pairs      *)
(* {start, end}, for up to MaxZones zones with marks on and off the        *)
(* precision grid.                                                         *)

MaxZones == 2

ZoneMarks == {RInt(1), RInt(2), RInt(5), RInt(9), Rat(1, 3), Rat(2, 3)}

\* the extents a detected zone can have
ZoneExtents == {se \in ZoneMarks \X ZoneMarks : RLe(se[1], se[2])}

\* the lists of at most MaxZones extents
ZoneLists == UNION {[1..n -> ZoneExtents] : n \in 0..MaxZones}

InitCollapse ==
    /\ pc = "collapseCall"
    /\ \E c \in {"MMFMode.combineZones", "MMFService.convertToMMFPair"},
             zs \in ZoneLists :
          \E pr \in PrecisionsOf(c) :
              zin = [collapser |-> c, zones |-> zs, precision |-> pr]
    /\ zout = <<>>
    /\ svc = "none"
    /\ params = NoCall
    /\ imageWork = <<>>
    /\ procOutcome = "pending"
    /\ loadOutcome = "pending"
    /\ imageData = NoImage
    /\ result = NoResult
    /\ thrown = FALSE
    /\ hook = NoHook
    /\ requests = <<>>

\* MMFMode.combineZones is called with the zones of zin
CombineZones ==
    /\ pc = "collapseCall"
    /\ zin.collapser = "MMFMode.combineZones"
    /\ zout' = MMFMode_combineZones(
                   [k \in 1..Len(zin.zones) |->
                       [startMark |-> zin.zones[k][1],
                        endMark   |-> zin.zones[k][2],
                        height    |-> RSub(zin.zones[k][2], zin.zones[k][1])]],
                   zin.precision)
    /\ pc' = "collapseDone"
    /\ UNCHANGED <<hook, requests, svc, params, imageWork, procOutcome, loadOutcome, imageData,
                   result, thrown, zin>>

\* MMFService.convertToMMFPair is called with the zones of zin
ConvertToMMFPair ==
    /\ pc = "collapseCall"
    /\ zin.collapser = "MMFService.convertToMMFPair"
    /\ zout' = MMFService_convertToMMFPair(
                   [k \in 1..Len(zin.zones) |->
                       [start |-> zin.zones[k][1], end |-> zin.zones[k][2]]],
                   zin.precision)
    /\ pc' = "collapseDone"
    /\ UNCHANGED <<hook, requests, svc, params, imageWork, procOutcome, loadOutcome, imageData,
                   result, thrown, zin>>

NextCollapse ==
    \/ CombineZones
    \/ ConvertToMMFPair

SpecCollapse == InitCollapse /\ [][NextCollapse]_vars

----------------------------------------------------------------------------
(* One call of a function of the measurement layer on its own:             *)
(* PrecisionManager.format on a value in cm, applied once and then again   *)
(* to what it returned, or one of the two calculatePhysicalPages on a      *)
(* positive page number.                                                   *)

MaxNumerator == 25
MaxPageNumber == 40

\* the values are n/d cm: whole and third centimetres, and the halves
\* between two steps of each precision
InitMeasure ==
    /\ pc = "call"
    /\ \/ \E n \in (-MaxNumerator)..MaxNumerator, d \in {1, 3, 20, 40, 2000},
             pr \in PrecisionsOf("ZoneDetector") :
             zin = [fn |-> "PrecisionManager.format",
                    valueCm |-> Rat(n, d), precision |-> pr]
       \/ \E f \in {"UnitConverter.calculatePhysicalPages",
                    "calculatePhysicalPages"}, n \in 1..MaxPageNumber :
             zin = [fn |-> f, lastPageNumber |-> n]
       \/ \E f \in {"PrecisionManager.round", "roundValue"},
             n \in (-MaxNumerator)..MaxNumerator, d \in {1, 3, 20, 40, 2000} :
             \E v \in {Rat(n, d), Rat(12345, 10000)},
                pr \in PrecisionsOf(IF f = "roundValue" THEN f ELSE "ZoneDetector") :
                zin = [fn |-> f, valueCm |-> v, precision |-> pr]
    /\ zout = <<>>
    /\ svc = "none"
    /\ params = NoCall
    /\ imageWork = <<>>
    /\ procOutcome = "pending"
    /\ loadOutcome = "pending"
    /\ imageData = NoImage
    /\ result = NoResult
    /\ thrown = FALSE
    /\ hook = NoHook
    /\ requests = <<>>

\* PrecisionManager.format is called with the value of zin
Format ==
    /\ pc = "call"
    /\ zin.fn = "PrecisionManager.format"
    /\ zout' = <<format(zin.valueCm, zin.precision)>>
    /\ pc' = "formatted"
    /\ UNCHANGED <<hook, requests, svc, params, imageWork, procOutcome, loadOutcome, imageData,
                   result, thrown, zin>>

\* PrecisionManager.format is called with the value it returned
FormatAgain ==
    /\ pc = "formatted"
    /\ zout' = Append(zout, format(zout[1], zin.precision))
    /\ pc' = "formattedAgain"
    /\ UNCHANGED <<hook, requests, svc, params, imageWork, procOutcome, loadOutcome, imageData,
                   result, thrown, zin>>

\* calculatePhysicalPages is called with the page number of zin
CalculatePhysicalPages ==
    /\ pc = "call"
    /\ zin.fn \in {"UnitConverter.calculatePhysicalPages", "calculatePhysicalPages"}
    /\ zout' = <<calculatePhysicalPages(zin.lastPageNumber)>>
    /\ pc' = "counted"
    /\ UNCHANGED <<hook, requests, svc, params, imageWork, procOutcome, loadOutcome, imageData,
                   result, thrown, zin>>

\* PrecisionManager.round is called with the value of zin
Round ==
    /\ pc = "call"
    /\ zin.fn = "PrecisionManager.round"
    /\ zout' = <<round(zin.valueCm, zin.precision)>>
    /\ pc' = "rounded"
    /\ UNCHANGED <<hook, requests, svc, params, imageWork, procOutcome, loadOutcome, imageData,
                   result, thrown, zin>>

\* roundValue is called with the value of zin
RoundValue ==
    /\ pc = "call"
    /\ zin.fn = "roundValue"
    /\ zout' = <<roundValue(zin.valueCm, zin.precision)>>
    /\ pc' = "rounded"
    /\ UNCHANGED <<hook, requests, svc, params, imageWork, procOutcome, loadOutcome, imageData,
                   result, thrown, zin>>

NextMeasure ==
    \/ Format
    \/ FormatAgain
    \/ CalculatePhysicalPages
    \/ Round
    \/ RoundValue

SpecMeasure == InitMeasure /\ [][NextMeasure]_vars

----------------------------------------------------------------------------
(* One generate call that may leave threshold, precision or pageHeightUnit *)
(* out.  GenerateParams declares the three optional; PatternGenerationParams *)
(* declares them required, and usePatternGenerator always fills unit and   *)
(* precision in, so a call of PatternGeneratorService carries all three.   *)

DefaultsParams(service) ==
    UNION {{[cutMode        |-> m,
             lastPageNumber |-> n,
             pageHeight     |-> RInt(5),
             pageHeightUnit |-> u,
             threshold      |-> t,
             precision      |-> pr,
             shadowFoldType |-> <<>>,
             combiEdgeWidth |-> <<>>] :
               n \in {0, 3},
               u \in IF service = "GenerateService"
                     THEN {<<>>, <<"cm">>, <<"in">>} ELSE {<<"cm">>, <<"in">>},
               t \in IF service = "GenerateService"
                     THEN {<<>>, <<100>>, <<128>>} ELSE {<<100>>, <<128>>},
               pr \in IF service = "GenerateService"
                      THEN {<<>>, <<"0.1mm">>, <<"1mm">>} ELSE {<<"0.1mm">>, <<"1mm">>}} :
           m \in serviceModes}

InitDefaults ==
    /\ pc = "idle"
    /\ svc \in Services
    /\ params \in DefaultsParams(svc)
    /\ imageWork = <<>>
    /\ procOutcome = "pending"
    /\ loadOutcome = "pending"
    /\ imageData = NoImage
    /\ result = NoResult
    /\ thrown = FALSE
    /\ hook = NoHook
    /\ requests = <<>>
    /\ zin = NoCall
    /\ zout = <<>>

SpecDefaults == InitDefaults /\ [][Next]_vars

----------------------------------------------------------------------------
(* ZoneDetector.detectZones followed by ZoneDetector.invertZones on its    *)
(* result, with the page height and the precision of the detection.  The   *)
(* page heights are 6 cm, 1 in (2.54 cm, off the 0.5 mm and 1 mm grids)    *)
(* and 0.1 cm (rows finer than every grid).                                *)

InitInvert ==
    /\ pc = "zoneCall"
    /\ \E img \in Images, t \in ZoneThresholds, dark \in BOOLEAN,
          h \in {RInt(6), toCm(RInt(1), "in"), Rat(1, 10)} :
          \E x \in 0..(img.width - 1), pr \in PrecisionsOf("ZoneDetector") :
              zin = ZoneCall("ZoneDetector", img, x, t, dark, h, pr)
    /\ zout = <<>>
    /\ svc = "none"
    /\ params = NoCall
    /\ imageWork = <<>>
    /\ procOutcome = "pending"
    /\ loadOutcome = "pending"
    /\ imageData = NoImage
    /\ result = NoResult
    /\ thrown = FALSE
    /\ hook = NoHook
    /\ requests = <<>>

\* ZoneDetector.invertZones is called with the zones detectZones returned
InvertZones ==
    /\ pc = "zoneDone"
    /\ zout' = [zones    |-> zout,
                inverted |-> invertZones(zout, zin.pageHeight, zin.precision)]
    /\ pc' = "inverted"
    /\ UNCHANGED <<hook, requests, svc, params, imageWork, procOutcome, loadOutcome, imageData,
                   result, thrown, zin>>

NextInvert ==
    \/ DetectZones
    \/ InvertZones

SpecInvert == InitInvert /\ [][NextInvert]_vars

----------------------------------------------------------------------------
(* The column of each page: the loop over the pages of a book of           *)
(* totalPages physical pages on a grid imageWidth wide, with               *)
(* getColumnXForPage (the services) or with the columnX of                 *)
(* CutModeBase.generatePattern.  zout holds the columns of the pages done. *)

MaxImageWidth == 8
MaxTotalPages == 8

InitColumn ==
    /\ pc = "pages"
    /\ \E f \in {"getColumnXForPage", "CutModeBase.generatePattern"},
          w \in 1..MaxImageWidth, t \in 1..MaxTotalPages :
          zin = [fn |-> f, imageWidth |-> w, totalPages |-> t]
    /\ zout = <<>>
    /\ svc = "none"
    /\ params = NoCall
    /\ imageWork = <<>>
    /\ procOutcome = "pending"
    /\ loadOutcome = "pending"
    /\ imageData = NoImage
    /\ result = NoResult
    /\ thrown = FALSE
    /\ hook = NoHook
    /\ requests = <<>>

\* one iteration of the page loop of a service: page = Len(zout)
GetColumnXForPage ==
    /\ pc = "pages"
    /\ zin.fn = "getColumnXForPage"
    /\ Len(zout) < zin.totalPages
    /\ zout' = Append(zout,
                   getColumnXForPage(Len(zout), zin.totalPages, zin.imageWidth))
    /\ UNCHANGED <<hook, requests, pc, svc, params, imageWork, procOutcome, loadOutcome,
                   imageData, result, thrown, zin>>

\* one iteration of the page loop of CutModeBase.generatePattern
GeneratePatternColumn ==
    /\ pc = "pages"
    /\ zin.fn = "CutModeBase.generatePattern"
    /\ Len(zout) < zin.totalPages
    /\ zout' = Append(zout,
                   CutModeBase_columnX([imageData     |-> [width |-> zin.imageWidth],
                                        physicalPages |-> zin.totalPages],
                                       Len(zout)))
    /\ UNCHANGED <<hook, requests, pc, svc, params, imageWork, procOutcome, loadOutcome,
                   imageData, result, thrown, zin>>

NextColumn ==
    \/ GetColumnXForPage
    \/ GeneratePatternColumn

SpecColumn == InitColumn /\ [][NextColumn]_vars

----------------------------------------------------------------------------
(* usePatternGenerator in the page that uses it.  hook.result and          *)
(* hook.lastParams are <<>> for null.  A request is one call of            *)
(* PatternGeneratorService.generate: who started it (generate or the       *)
(* auto-update effect), the full parameters it was given, and whether its  *)
(* promise has settled.  The promise resolves (generate never rejects)     *)
(* with a result of its parameters, at a time of its own: two calls in     *)
(* flight settle in either order.                                          *)

MaxRequests == 3

\* the parameters the form hands to generate: what tells two calls apart
FormParams == {[cutMode |-> "Inverted", lastPageNumber |-> n] : n \in {2, 4}}

\* fullParams / updatedParams: the parameters with unit and precision
FullParams(p, unit, precision) ==
    [cutMode        |-> p.cutMode,
     lastPageNumber |-> p.lastPageNumber,
     pageHeightUnit |-> unit,
     precision      |-> precision]

\* the request list once a call with fullParams has been started
Started(by, fullParams) ==
    Append(requests, [by |-> by, fullParams |-> fullParams, settled |-> FALSE])

InitHook ==
    /\ pc = "mounted"
    /\ hook = NoHook
    /\ requests = <<>>
    /\ svc = "PatternGeneratorService"
    /\ params = NoCall
    /\ imageWork = <<>>
    /\ procOutcome = "pending"
    /\ loadOutcome = "pending"
    /\ imageData = NoImage
    /\ result = NoResult
    /\ thrown = FALSE
    /\ zin = NoCall
    /\ zout = <<>>

\* the Generate button is pressed (it is disabled while isGenerating):
\* generate sets isGenerating and starts the call with the unit and the
\* precision of the contexts
HookGenerate ==
    /\ pc = "mounted"
    /\ ~hook.isGenerating
    /\ Len(requests) < MaxRequests
    /\ \E p \in FormParams :
          requests' = Started("generate", FullParams(p, hook.unit, hook.precision))
    /\ hook' = [hook EXCEPT !.isGenerating = TRUE]
    /\ UNCHANGED <<pc, svc, params, imageWork, procOutcome, loadOutcome,
                   imageData, result, thrown, zin, zout>>

\* the call generate started resolves: setResult, setLastParams, and in
\* the finally block setIsGenerating(false)
GenerateSettles ==
    /\ \E i \in 1..Len(requests), ok \in BOOLEAN :
          /\ requests[i].by = "generate"
          /\ ~requests[i].settled
          /\ hook' = [hook EXCEPT
                         !.result = <<[success |-> ok, params |-> requests[i].fullParams]>>,
                         !.lastParams = <<requests[i].fullParams>>,
                         !.isGenerating = FALSE]
          /\ requests' = [requests EXCEPT ![i].settled = TRUE]
    /\ UNCHANGED <<pc, svc, params, imageWork, procOutcome, loadOutcome,
                   imageData, result, thrown, zin, zout>>

\* the auto-update effect, run after the render in which unit or
\* precision changed: nothing without a result, without lastParams or
\* while isGenerating; otherwise a call with lastParams under the new unit
\* and precision
AutoUpdate(unit, precision) ==
    IF hook.result = <<>> \/ hook.lastParams = <<>> \/ hook.isGenerating
    THEN requests' = requests
    ELSE requests' = Started("effect", FullParams(hook.lastParams[1], unit, precision))

\* the unit select changes the unit of UnitPreferencesContext
SetUnit ==
    /\ pc = "mounted"
    /\ Len(requests) < MaxRequests
    /\ \E u \in {"cm", "in"} \ {hook.unit} :
          /\ hook' = [hook EXCEPT !.unit = u]
          /\ AutoUpdate(u, hook.precision)
    /\ UNCHANGED <<pc, svc, params, imageWork, procOutcome, loadOutcome,
                   imageData, result, thrown, zin, zout>>

\* the precision select changes the precision of PrecisionContext
SetPrecision ==
    /\ pc = "mounted"
    /\ Len(requests) < MaxRequests
    /\ \E pr \in PrecisionsOf("PatternGeneratorService") \ {hook.precision} :
          /\ hook' = [hook EXCEPT !.precision = pr]
          /\ AutoUpdate(hook.unit, pr)
    /\ UNCHANGED <<pc, svc, params, imageWork, procOutcome, loadOutcome,
                   imageData, result, thrown, zin, zout>>

\* the call the effect started resolves: setResult, setLastParams
EffectSettles ==
    /\ \E i \in 1..Len(requests), ok \in BOOLEAN :
          /\ requests[i].by = "effect"
          /\ ~requests[i].settled
          /\ hook' = [hook EXCEPT
                         !.result = <<[success |-> ok, params |-> requests[i].fullParams]>>,
                         !.lastParams = <<requests[i].fullParams>>]
          /\ requests' = [requests EXCEPT ![i].settled = TRUE]
    /\ UNCHANGED <<pc, svc, params, imageWork, procOutcome, loadOutcome,
                   imageData, result, thrown, zin, zout>>

NextHook ==
    \/ HookGenerate
    \/ GenerateSettles
    \/ SetUnit
    \/ SetPrecision
    \/ EffectSettles

SpecHook == InitHook /\ [][NextHook]_vars

----------------------------------------------------------------------------
(* Properties of one generate call (Spec, SpecRun, SpecBook, SpecCombi).   *)

\* the result of the call carries a pattern, be it empty
HasPattern(r) ==
    /\ r.patternResult # <<>>
    /\ r.patternResult[1].data # <<>>

\* the pattern of a successful result
PatternOf(r) == r.patternResult[1].data[1].pattern

\* the threshold the call works with
ThresholdOf(p) == p.threshold[1]

\* the parameters the validation of the specification refuses
InvalidParams(p) ==
    \/ RLe(p.pageHeight, RInt(0))
    \/ p.lastPageNumber <= 0
    \/ ThresholdOf(p) < 0
    \/ ThresholdOf(p) > 255

\* C1: for every mode, a call with pageHeight <= 0, lastPageNumber <= 0 or
\* a threshold outside [0,255] returns success=false with a message and
\* produces no pattern.
C1_InvalidParamsRejected ==
    (pc = "done" /\ InvalidParams(params)) =>
        /\ ~result.success
        /\ result.message # <<>>
        /\ ~HasPattern(result)

\* the call ended in a validation error: execute of the mode returned its
\* failure before awaiting the pixel grid
ValidationError ==
    /\ pc = "done"
    /\ procOutcome = "ok"
    /\ loadOutcome = "pending"
    /\ params.cutMode \in modeRegistry
    /\ ~result.success

\* image steps started so far
ImageSteps == {imageWork[k] : k \in 1..Len(imageWork)}

\* C2 as stated: a call that ends in a validation error has performed no
\* image processing, loading or decoding step.
C2_NoImageWorkBeforeValidation ==
    ValidationError => imageWork = <<>>

\* C2 amended: validation runs inside execute of the mode, after generate
\* has processed the image and before the pixel grid is loaded and decoded:
\* a call that ends in a validation error has performed the processing step
\* and nothing else, and no call with pageHeight <= 0 or lastPageNumber <= 0
\* ever starts loading the grid.
C2_ValidationBeforeGridLoad ==
    /\ ValidationError => imageWork = <<"processImage">>
    /\ "loadImageData" \in ImageSteps =>
           /\ ~RLe(params.pageHeight, RInt(0))
           /\ params.lastPageNumber > 0

C2_Witness ==
    /\ ValidationError
    /\ params.lastPageNumber = 0
    /\ imageWork = <<"processImage">>

\* C3: generate never propagates an exception: a failure of the image
\* processing, of the mode lookup (an unknown mode identifier) or of the
\* image loading ends with a returned result {success: false, message}.
C3_NeverThrows ==
    /\ ~thrown
    /\ (/\ pc = "done"
        /\ \/ procOutcome = "error"
           \/ loadOutcome = "error"
           \/ params.cutMode \notin modeRegistry)
       => (~result.success /\ result.message # <<>>)

C3_Witness ==
    /\ pc = "done"
    /\ svc = "PatternGeneratorService"
    /\ procOutcome = "ok"
    /\ params.cutMode \notin modeRegistry
    /\ ~thrown
    /\ ~result.success

\* C4: generation is all-or-nothing: a result with success=false carries no
\* pattern, whatever step failed.
C4_AllOrNothing ==
    (pc = "done" /\ ~result.success) => ~HasPattern(result)

C4_Witness ==
    /\ pc = "done"
    /\ svc = "PatternGeneratorService"
    /\ loadOutcome = "error"
    /\ result.patternResult # <<>>
    /\ ~HasPattern(result)

\* C5: on success, for every mode, the pattern has ceil(lastPageNumber / 2)
\* entries and the entry at 0-based index i has page = i + 1 (entry k of the
\* 1-based sequence has page = k).
C5_OnePagePerPhysicalPage ==
    (pc = "done" /\ result.success) =>
        /\ Len(PatternOf(result)) = (params.lastPageNumber + 1) \div 2
        /\ \A k \in 1..Len(PatternOf(result)) : PatternOf(result)[k].page = k

C5_Witness ==
    /\ pc = "done"
    /\ result.success
    /\ params.lastPageNumber = 3
    /\ Len(PatternOf(result)) = 2
    /\ PatternOf(result)[2].page = 2

\* the column sampled for the k-th physical page of the call
ColumnOf(k) ==
    ((k - 1) * imageData.width) \div ((params.lastPageNumber + 1) \div 2)

\* the gray level of row y in the column of page k
GrayAt(k, y) == imageData.data[y * imageData.width + ColumnOf(k) + 1]

Rows == 0..(imageData.height - 1)

\* the top of pixel row y on the page, in cm (pageHeight is in cm)
RowPos(y) == RMul(Rat(y, imageData.height), params.pageHeight)

\* row y lies inside zone z.  The end mark of a ZoneDetector zone is the top
\* of the first row after the run; the end mark of a zone of the services is
\* the top of the last row of the run.
InZone(y, z) ==
    /\ RLe(z.startMark, RowPos(y))
    /\ IF svc = "PatternGeneratorService"
       THEN RLt(RowPos(y), z.endMark)
       ELSE RLe(RowPos(y), z.endMark)

\* the zones of page k that hold row y
ZonesHolding(k, y) ==
    {j \in 1..Len(PatternOf(result)[k].zones) :
        InZone(y, PatternOf(result)[k].zones[j])}

\* the rows of page k's column whose gray level equals the threshold
ThresholdRows(k) == {y \in Rows : GrayAt(k, y) = ThresholdOf(params)}

C9_Page3HasTheZone ==
    (pc = "done" /\ result.success) =>
        PatternOf(result)[3].zones =
            <<[startMark |-> RInt(4), endMark |-> RInt(6), height |-> RInt(2)]>>

\* C10: for every page of Inverted, Embossed, Shadow Fold and MMF,
\* hasContent is true iff the page's zones are non-empty; for MMF, iff the
\* column had a detected zone, that is, a row darker than the threshold.
C10_HasContentIffZones ==
    (/\ pc = "done"
     /\ result.success
     /\ params.cutMode \in {"Inverted", "Embossed", "Shadow Fold", "MMF"}) =>
        \A k \in 1..Len(PatternOf(result)) :
            /\ PatternOf(result)[k].hasContent <=> Len(PatternOf(result)[k].zones) > 0
            /\ params.cutMode = "MMF" =>
                   (PatternOf(result)[k].hasContent <=>
                        \E y \in Rows : GrayAt(k, y) < ThresholdOf(params))

C10_Witness ==
    /\ pc = "done"
    /\ result.success
    /\ params.cutMode = "MMF"
    /\ \E k \in 1..Len(PatternOf(result)) : PatternOf(result)[k].hasContent
    /\ \E k \in 1..Len(PatternOf(result)) : ~PatternOf(result)[k].hasContent

----------------------------------------------------------------------------
(* Properties of one zone detection (SpecZones).                           *)

\* C6: for any column, threshold, polarity, page height and precision, the
\* zones a detector returns are in increasing startMark order and do not
\* overlap: zones[i].endMark <= zones[i+1].startMark for adjacent zones
\* (increasing is ascending: coarse rounding can give two zones one mark).
C6_ZonesOrdered ==
    pc = "zoneDone" =>
        \A i \in 1..(Len(zout) - 1) :
            /\ RLe(zout[i].startMark, zout[i + 1].startMark)
            /\ RLe(zout[i].endMark, zout[i + 1].startMark)

C6_Witness ==
    /\ pc = "zoneDone"
    /\ Len(zout) = 2
    /\ RLt(zout[1].endMark, zout[2].startMark)

\* C7: every zone a detector returns has endMark >= startMark and
\* height = endMark - startMark on the rounded values, for every precision.
C7_HeightIsExtent ==
    pc = "zoneDone" =>
        \A i \in 1..Len(zout) :
            /\ RLe(zout[i].startMark, zout[i].endMark)
            /\ zout[i].height = RSub(zout[i].endMark, zout[i].startMark)

----------------------------------------------------------------------------
(* Properties of Shadow Fold (SpecBook, Spec).                             *)

\* the period of the call under the names of ShadowFoldMode: "regular" is
\* the "1:1" of ShadowFoldService and "2/3" its "2:1"; none given is "1:1"
PeriodOf(p) ==
    IF p.shadowFoldType = <<>> \/ p.shadowFoldType \in {<<"1:1">>, <<"regular">>}
    THEN "1:1" ELSE "2:1"

\* the 0-based indices of the pages marked as skipped
SkippedPages(pattern) == {k - 1 : k \in {j \in 1..Len(pattern) : pattern[j].isSkipped}}

\* page i of a book of the given period is to be skipped
SkipExpected(period, i) ==
    IF period = "1:1" THEN i % 2 = 1 ELSE (i + 1) % 3 = 0

\* C11: Shadow Fold marks the 0-indexed page i as skipped iff i % 2 = 1 for
\* period "1:1" and iff (i + 1) % 3 = 0 for period "2:1": among pages 0..5
\* with "1:1" exactly {1,3,5}, among pages 0..8 with "2:1" exactly {2,5,8}.
C11_SkipPeriod ==
    (pc = "done" /\ result.success /\ params.cutMode = "Shadow Fold") =>
        /\ \A k \in 1..Len(PatternOf(result)) :
               PatternOf(result)[k].isSkipped <=>
                   SkipExpected(PeriodOf(params), k - 1)
        /\ (PeriodOf(params) = "1:1" /\ Len(PatternOf(result)) = 6) =>
               SkippedPages(PatternOf(result)) = {1, 3, 5}
        /\ (PeriodOf(params) = "2:1" /\ Len(PatternOf(result)) = 9) =>
               SkippedPages(PatternOf(result)) = {2, 5, 8}

C11_Witness ==
    /\ pc = "done"
    /\ result.success
    /\ svc = "GenerateService"
    /\ params.shadowFoldType = <<"2/3">>
    /\ Len(PatternOf(result)) = 9
    /\ SkippedPages(PatternOf(result)) = {2, 5, 8}

\* the pattern Inverted generates for the image and the parameters of the
\* call, by the same orchestrator
InvertedPattern ==
    execute_resume(svc, [params EXCEPT !.cutMode = "Inverted"],
                   imageData).data[1].pattern

\* sf is inv with exactly the skipped pages emptied
EmptiedWhereSkipped(sf, inv) ==
    /\ Len(sf) = Len(inv)
    /\ \A k \in 1..Len(sf) :
           /\ sf[k].page = inv[k].page
           /\ IF sf[k].isSkipped
              THEN sf[k].zones = <<>> /\ ~sf[k].hasContent
              ELSE /\ sf[k].zones = inv[k].zones
                   /\ sf[k].hasContent = inv[k].hasContent

\* C12: for the same image and parameters, the Shadow Fold pattern is the
\* Inverted pattern with exactly the skipped pages emptied: a skipped page
\* has no zones and hasContent = false, any other page has the zones and
\* the hasContent of the Inverted page of the same index.
C12_ShadowFoldIsInvertedWithSkips ==
    (pc = "done" /\ result.success /\ params.cutMode = "Shadow Fold") =>
        EmptiedWhereSkipped(PatternOf(result), InvertedPattern)

C12_Witness ==
    /\ pc = "done"
    /\ result.success
    /\ params.cutMode = "Shadow Fold"
    /\ \E k \in 1..Len(PatternOf(result)) :
           /\ PatternOf(result)[k].isSkipped
           /\ PatternOf(result)[k].zones = <<>>
           /\ InvertedPattern[k].zones # <<>>
    /\ \E k \in 1..Len(PatternOf(result)) :
           /\ ~PatternOf(result)[k].isSkipped
           /\ PatternOf(result)[k].zones # <<>>

----------------------------------------------------------------------------
(* Properties of Combi (SpecCombi).                                        *)

\* the edge width of the call in cm: 2 when none is given
EdgeWidthOf(p) == IF p.combiEdgeWidth = <<>> THEN RInt(2) ELSE p.combiEdgeWidth[1]

\* the page height of the call in cm
PageHeightCmOf(p) == toCm(p.pageHeight, p.pageHeightUnit[1])

\* the two edge folds of the call do not fit on its page
EdgesTooWide(p) == RLe(PageHeightCmOf(p), RMulInt(EdgeWidthOf(p), 2))

\* C13: a Combi generation with 2 * edgeWidth >= pageHeightCm (the page
\* height converted to cm) is rejected with success = false before any page
\* pattern is produced: pageHeight = 4 cm with edgeWidth = 2.5 cm fails,
\* edgeWidth = 1 cm on the same page succeeds.
C13_WideEdgesRejected ==
    (pc = "done" /\ params.cutMode = "Combi" /\ procOutcome = "ok") =>
        /\ EdgesTooWide(params) =>
               /\ ~result.success
               /\ ~HasPattern(result)
               /\ "loadImageData" \notin ImageSteps
        /\ (/\ PageHeightCmOf(params) = RInt(4)
            /\ EdgeWidthOf(params) = RInt(1)
            /\ loadOutcome = "ok") => result.success

\* zone z is an edge fold (the zones of ZoneDetector carry no isEdgeFold)
IsEdgeFold(z) == "isEdgeFold" \in DOMAIN z /\ z.isEdgeFold

\* the indices of the edge folds among zones
EdgeFolds(zones) == {j \in 1..Len(zones) : IsEdgeFold(zones[j])}

\* zone z spans [from, to] once the marks are rounded to the precision
Spans(z, from, to, precision) ==
    /\ z.startMark = roundValue(from, precision)
    /\ z.endMark = roundValue(to, precision)

\* zones holds exactly two edge folds, one over the top edgeWidth of the
\* page and one over the bottom edgeWidth
TwoEdgeFolds(zones, edgeWidth, pageHeightCm, precision) ==
    /\ Cardinality(EdgeFolds(zones)) = 2
    /\ \E a \in EdgeFolds(zones) :
           Spans(zones[a], RInt(0), edgeWidth, precision)
    /\ \E b \in EdgeFolds(zones) :
           Spans(zones[b], RSub(pageHeightCm, edgeWidth), pageHeightCm, precision)

C15_CombiAlwaysHasContent ==
    (pc = "done" /\ result.success /\ params.cutMode = "Combi") =>
        \A k \in 1..Len(PatternOf(result)) :
            EdgeFolds(PatternOf(result)[k].zones) # {} =>
                PatternOf(result)[k].hasContent

\* C16: in Combi mode the final zone list of every page, edge folds and
\* centre zones together, is sorted by non-decreasing startMark.
C16_CombiZonesSorted ==
    (pc = "done" /\ result.success /\ params.cutMode = "Combi") =>
        \A k \in 1..Len(PatternOf(result)) :
            \A j \in 1..(Len(PatternOf(result)[k].zones) - 1) :
                RLe(PatternOf(result)[k].zones[j].startMark,
                    PatternOf(result)[k].zones[j + 1].startMark)

\* C17: in Combi mode the dark scan is restricted to the centre: every zone
\* that is not an edge fold has edgeWidth <= startMark and
\* endMark <= pageHeight - edgeWidth.
C17_CentreZonesInsideCentre ==
    (pc = "done" /\ result.success /\ params.cutMode = "Combi") =>
        \A k \in 1..Len(PatternOf(result)) :
            \A j \in 1..Len(PatternOf(result)[k].zones) :
                ~IsEdgeFold(PatternOf(result)[k].zones[j]) =>
                    /\ RLe(EdgeWidthOf(params),
                           PatternOf(result)[k].zones[j].startMark)
                    /\ RLe(PatternOf(result)[k].zones[j].endMark,
                           RSub(PageHeightCmOf(params), EdgeWidthOf(params)))

----------------------------------------------------------------------------
(* Properties of MMF's collapse (SpecCollapse).                            *)

\* the least start mark and the greatest end mark of the extents zs
MinStart(zs) ==
    CHOOSE m \in {zs[k][1] : k \in 1..Len(zs)} :
        \A k \in 1..Len(zs) : RLe(m, zs[k][1])
MaxEnd(zs) ==
    CHOOSE m \in {zs[k][2] : k \in 1..Len(zs)} :
        \A k \in 1..Len(zs) : RLe(zs[k][2], m)

\* x is a multiple of the precision
OnGrid(x, precision) == roundValue(x, precision) = x

\* z is the one zone from minStart to maxEnd, each mark and the height
\* rounded to the precision; with both marks on the grid, the marks
\* themselves and their difference
Collapsed(z, minStart, maxEnd, precision) ==
    /\ z.startMark = roundValue(minStart, precision)
    /\ z.endMark = roundValue(maxEnd, precision)
    /\ z.height = roundValue(RSub(maxEnd, minStart), precision)
    /\ (OnGrid(minStart, precision) /\ OnGrid(maxEnd, precision)) =>
           /\ z.startMark = minStart
           /\ z.endMark = maxEnd
           /\ z.height = RSub(z.endMark, z.startMark)

\* C18: MMF yields at most one zone; when there are underlying zones, that
\* zone has startMark = min of their startMarks, endMark = max of their
\* endMarks and height = endMark - startMark, each subject to the rounding
\* of the precision: the zones (1,2),(5,9) give (1,9) with height 8.
C18_MMFCollapse ==
    pc = "collapseDone" =>
        /\ Len(zout) <= 1
        /\ (Len(zout) = 1) <=> (Len(zin.zones) > 0)
        /\ Len(zin.zones) > 0 =>
               Collapsed(zout[1], MinStart(zin.zones), MaxEnd(zin.zones),
                         zin.precision)
        /\ zin.zones = <<(<<RInt(1), RInt(2)>>), (<<RInt(5), RInt(9)>>)>> =>
               zout = <<[startMark |-> RInt(1), endMark |-> RInt(9),
                         height |-> RInt(8)]>>

C18_Witness ==
    /\ pc = "collapseDone"
    /\ zin.collapser = "MMFMode.combineZones"
    /\ zin.zones = <<(<<RInt(5), RInt(9)>>), (<<RInt(1), RInt(2)>>)>>
    /\ zout = <<[startMark |-> RInt(1), endMark |-> RInt(9), height |-> RInt(8)]>>

----------------------------------------------------------------------------
(* Properties of the measurement layer (SpecMeasure).                      *)

\* C19: PrecisionManager.format is idempotent: for every value x and every
\* precision p, format(format(x, p), p) = format(x, p).
C19_FormatIdempotent ==
    pc = "formattedAgain" => zout[2] = zout[1]

C19_Witness ==
    /\ pc = "formattedAgain"
    /\ zin.precision = "0.5mm"
    /\ zin.valueCm = Rat(-7, 40)
    /\ zout[1] # zin.valueCm
    /\ zout[2] = zout[1]

\* C20: physicalPages(lastPageNumber) = ceil(lastPageNumber / 2) for every
\* positive lastPageNumber, that is, the least count of sheets whose two
\* sides hold lastPageNumber pages: physicalPages(10) = 5,
\* physicalPages(11) = 6 and physicalPages(1) = 1.
C20_PhysicalPagesIsCeilOfHalf ==
    pc = "counted" =>
        /\ 2 * zout[1] >= zin.lastPageNumber
        /\ 2 * (zout[1] - 1) < zin.lastPageNumber
        /\ zin.lastPageNumber = 10 => zout[1] = 5
        /\ zin.lastPageNumber = 11 => zout[1] = 6
        /\ zin.lastPageNumber = 1 => zout[1] = 1

C20_Witness ==
    /\ pc = "counted"
    /\ zin.fn = "calculatePhysicalPages"
    /\ zin.lastPageNumber = 11
    /\ zout = <<6>>

----------------------------------------------------------------------------
(* Defaults.                                                               *)

\* the call p with the three defaults written out
WithDefaultsSupplied(p) ==
    [p EXCEPT !.threshold      = IF Given(p.threshold) THEN p.threshold ELSE <<128>>,
              !.precision      = IF Given(p.precision) THEN p.precision ELSE <<"0.1mm">>,
              !.pageHeightUnit = IF Given(p.pageHeightUnit) THEN p.pageHeightUnit
                                                            ELSE <<"cm">>]

\* the call leaves out at least one of the three
OmitsADefault(p) ==
    ~Given(p.threshold) \/ ~Given(p.precision) \/ ~Given(p.pageHeightUnit)

\* C21: a generation call that omits threshold, precision or
\* pageHeightUnit settles with the result (pattern included) of the same
\* call on the same pixel grid with threshold 128, precision 0.1 mm and
\* unit cm supplied; a call refused before the grid is read is refused the
\* same way.
C21_OmittedMeansDefault ==
    (pc = "done" /\ OmitsADefault(params) /\ procOutcome = "ok") =>
        IF loadOutcome = "ok"
        THEN result = generate_return(svc,
                          execute_resume(svc, WithDefaultsSupplied(params), imageData)).result
        ELSE loadOutcome = "pending" =>
                 result = generate_dispatch(svc, WithDefaultsSupplied(params))[1].result

\* a call without threshold, precision and unit has produced a pattern
\* with a zone that threshold 128 sees and unit cm places
C21_Witness ==
    /\ pc = "done"
    /\ ~Given(params.threshold) /\ ~Given(params.precision)
    /\ ~Given(params.pageHeightUnit)
    /\ params.cutMode = "Inverted"
    /\ HasPattern(result)
    /\ \E k \in 1..Len(PatternOf(result)) : PatternOf(result)[k].zones # <<>>

----------------------------------------------------------------------------
(* Inversion.                                                              *)

\* every mark of the ranges ps, with the two ends of the page
MarksOf(ps, pageHeightCm) ==
    {ps[k].startMark : k \in 1..Len(ps)} \cup {ps[k].endMark : k \in 1..Len(ps)}
        \cup {RInt(0), pageHeightCm}

\* a < b with no mark of E between them
Adjacent(E, a, b) ==
    RLt(a, b) /\ ~\E e \in E : RLt(a, e) /\ RLt(e, b)

\* the ranges of ps that hold the stretch [a, b]
Holding(ps, a, b) ==
    {k \in 1..Len(ps) : RLe(ps[k].startMark, a) /\ RLe(b, ps[k].endMark)}

\* every stretch of [0, pageHeightCm] between two neighbouring marks lies
\* in exactly one range of ps
CoveredOnce(ps, pageHeightCm) ==
    \A a \in MarksOf(ps, pageHeightCm), b \in MarksOf(ps, pageHeightCm) :
        (Adjacent(MarksOf(ps, pageHeightCm), a, b) /\ RLt(a, pageHeightCm))
            => Cardinality(Holding(ps, a, b)) = 1

\* C22: the ranges of the zones detectZones returned, together with the
\* ranges invertZones returns for them, cover [0, pageHeightCm] exactly
\* once: every stretch of the page of positive length lies in exactly one
\* of them (no gap, no overlap).
C22_Complementarity ==
    pc = "inverted" => CoveredOnce(zout.zones \o zout.inverted, zin.pageHeight)

\* two zones were detected and inverted into a gap before, between and after
C22_Witness ==
    /\ pc = "inverted"
    /\ Len(zout.zones) = 2
    /\ Len(zout.inverted) = 3

\* C25: for a non-empty zone list, every zone invertZones returns has a
\* height strictly above 0.
C25_NoZeroHeightGap ==
    (pc = "inverted" /\ zout.zones # <<>>) =>
        \A k \in 1..Len(zout.inverted) : RLt(RInt(0), zout.inverted[k].height)

----------------------------------------------------------------------------
(* The runs of a column (SpecZones): the reading of the column the         *)
(* properties of a detector call are stated against.                       *)

ColumnInside == zin.columnX >= 0 /\ zin.columnX < zin.imageData.width

ColumnRows == 0..(zin.imageData.height - 1)

\* row y of the column of the call is a target row
TargetRow(y) ==
    IF zin.detectDark
    THEN zin.imageData.data[y * zin.imageData.width + zin.columnX + 1] < zin.threshold
    ELSE zin.imageData.data[y * zin.imageData.width + zin.columnX + 1] >= zin.threshold

\* the first rows of the maximal runs of target rows
RunStarts ==
    {y \in ColumnRows : TargetRow(y) /\ (y = 0 \/ ~TargetRow(y - 1))}

\* the first row of the k-th run from the top
RunStart(k) ==
    CHOOSE s \in RunStarts : Cardinality({t \in RunStarts : t < s}) = k - 1

\* the last row of the run that starts at row s
RunEnd(s) ==
    CHOOSE e \in ColumnRows :
        /\ e >= s
        /\ \A y \in s..e : TargetRow(y)
        /\ (e = zin.imageData.height - 1 \/ ~TargetRow(e + 1))

\* the mark of the top of row y as the detector of the call formats it
MarkOfRow(y) ==
    IF zin.detector = "ZoneDetector"
    THEN format(RMul(Rat(y, zin.imageData.height), zin.pageHeight), zin.precision)
    ELSE roundValue(RMul(Rat(y, zin.imageData.height), zin.pageHeight), zin.precision)

\* C23: a zone is closed inclusively at its last target row: the end mark
\* of the k-th zone is the formatted position of the last row of the k-th
\* run ((y - 1) / height * pageHeightCm when row y ended it,
\* (height - 1) / height * pageHeightCm when it ran to the last row).
C23_ZoneEndsAtLastTargetRow ==
    (pc = "zoneDone" /\ ColumnInside) =>
        \A k \in 1..Len(zout) :
            k <= Cardinality(RunStarts) =>
                zout[k].endMark = MarkOfRow(RunEnd(RunStart(k)))

\* C24: a column index outside [0, width) yields an empty zone list.
C24_ColumnOutsideYieldsNoZone ==
    (pc = "zoneDone" /\ ~ColumnInside) => zout = <<>>

----------------------------------------------------------------------------
(* Rounding (SpecMeasure).                                                 *)

\* the step of the precision grid, in cm
GridStep(precision) ==
    CASE precision = "0.1mm" -> Rat(1, 100)
      [] precision = "0.5mm" -> Rat(5, 100)
      [] precision = "1mm"   -> Rat(1, 10)

\* r is a whole number of steps
MultipleOf(r, step) == (r.n * step.d) % (r.d * step.n) = 0

\* no multiple of step is nearer to v than r: r lies within half a step
NearestTo(r, v, step) ==
    /\ RLe(RMulInt(RSub(r, v), 2), step)
    /\ RLe(RMulInt(RSub(v, r), 2), step)

\* C26: PrecisionManager.round and roundValue return the value unchanged
\* for "exact", and otherwise a multiple of the grid step (0.01, 0.05 or
\* 0.1 cm) than which no other multiple is nearer to the value.
C26_RoundIsNearestOnGrid ==
    pc = "rounded" =>
        IF zin.precision = "exact"
        THEN zout[1] = zin.valueCm
        ELSE /\ MultipleOf(zout[1], GridStep(zin.precision))
             /\ NearestTo(zout[1], zin.valueCm, GridStep(zin.precision))

\* roundValue has moved 7/40 cm (1.75 mm) up to 0.2 cm on the 1 mm grid,
\* and PrecisionManager.round -1/3 cm to -0.35 cm on the 0.5 mm grid
C26_Witness ==
    /\ pc = "rounded"
    /\ \/ /\ zin.fn = "roundValue"
          /\ zin.precision = "1mm"
          /\ zin.valueCm = Rat(7, 40)
          /\ zout = <<Rat(2, 10)>>
       \/ /\ zin.fn = "PrecisionManager.round"
          /\ zin.precision = "0.5mm"
          /\ zin.valueCm = Rat(-1, 3)
          /\ zout = <<Rat(-35, 100)>>

\* C27: the examples of the comment on roundValue: roundValue(1.2345,
\* '0.1mm') returns 1.2, roundValue(1.2345, '1mm') returns 1.2 and
\* roundValue(1.2345, 'exact') returns 1.2345.
C27_DocumentedExamples ==
    (pc = "rounded" /\ zin.fn = "roundValue" /\ zin.valueCm = Rat(12345, 10000)) =>
        /\ zin.precision = "0.1mm" => zout[1] = Rat(12, 10)
        /\ zin.precision = "1mm" => zout[1] = Rat(12, 10)
        /\ zin.precision = "exact" => zout[1] = Rat(12345, 10000)

----------------------------------------------------------------------------
(* Column selection (SpecColumn).                                          *)

\* C28: for every width >= 1, totalPages >= 1 and page p in
\* 0 .. totalPages - 1, the column floor(p * (width / totalPages)) lies in
\* 0 .. width - 1 and does not decrease with p: no page is mapped outside
\* the image.
C28_ColumnInsideImage ==
    pc = "pages" =>
        \A k \in 1..Len(zout) :
            /\ zout[k] = ((k - 1) * zin.imageWidth) \div zin.totalPages
            /\ 0 <= zout[k]
            /\ zout[k] < zin.imageWidth
            /\ k > 1 => zout[k - 1] <= zout[k]

\* five pages on a grid three wide: pages share columns and the last page
\* reads the last column
C28_Witness ==
    /\ pc = "pages"
    /\ zin.imageWidth = 3
    /\ zin.totalPages = 5
    /\ zout = <<0, 0, 1, 1, 2>>

----------------------------------------------------------------------------
(* usePatternGenerator (SpecHook).                                         *)

\* every call the hook started has settled
AllSettled == \A i \in 1..Len(requests) : requests[i].settled

\* the request started last
MostRecent == requests[Len(requests)]

\* C30: once every generation the hook started has completed, the stored
\* result and lastParams are those of the most recently started request,
\* and isGenerating is false.
C30_LastStartedWins ==
    (requests # <<>> /\ AllSettled) =>
        /\ hook.lastParams = <<MostRecent.fullParams>>
        /\ hook.result # <<>>
        /\ hook.result[1].params = MostRecent.fullParams
        /\ ~hook.isGenerating

====
